---- MODULE Spec2Model ----
(***************************************************************************)
(* State machine of the BitcoinAgent of the Internet Computer Bitcoin      *)
(* library (rust/src): the managed-address registry, the per-address UTXO  *)
(* layers (seen, unseen, spent, generated), the peek / commit / get diff   *)
(* engine and the asynchronous reconcile pipeline                          *)
(*   get_utxos_args -> get_utxos_from_args -> apply_utxos.                 *)
(***************************************************************************)
EXTENDS Integers, Sequences, FiniteSets, TLC

(***************************************************************************)
(* Bounds of the model.                                                    *)
(***************************************************************************)
\* greatest number of UTXOs in one oracle response
MaxSnapshot == 2

(***************************************************************************)
(* Values.                                                                 *)
(***************************************************************************)
Range(s) == {s[i] : i \in 1..Len(s)}

\* The element of a set of one element.  {e(x) : x \in {d}} computes d once,
\* however often e uses x.
TheOnly(S) == CHOOSE x \in S : TRUE

\* Sequences over S of length at most n.
RECURSIVE SeqsUpTo(_, _)
SeqsUpTo(S, n) ==
    IF n = 0 THEN {<<>>}
    ELSE LET shorter == SeqsUpTo(S, n - 1)
         IN shorter \cup {Append(s, x) : s \in {t \in shorter : Len(t) = n - 1}, x \in S}

\* All orderings of a finite set, as sequences.
RECURSIVE Orderings(_)
Orderings(S) ==
    IF S = {} THEN {<<>>}
    ELSE UNION {{<<x>> \o s : s \in Orderings(S \ {x})} : x \in S}

\* Result<T, E>
Ok(v) == [ok |-> TRUE, val |-> v]
Err(e) == [ok |-> FALSE, err |-> e]
Unit == "()"

\* Networks of bitcoin::Network that the library supports, and the script types.
Networks == {"Bitcoin", "Testnet", "Regtest"}
AddressTypes == {"P2pkh", "P2sh", "P2wpkh"}

\* The master public key handed to initialize (the key of the repository's
\* tests, get_btc_ecdsa_public_key), and the key of an agent that was never
\* initialized (ManagementCanister::new: empty public key).
MasterKey == [public_key |-> <<"K">>, chain_code |-> <<>>, derivation_path |-> <<>>]
EmptyKey == [public_key |-> <<>>, chain_code |-> <<>>, derivation_path |-> <<>>]

\* Derivation paths a caller asks for (one index byte string per segment).
DerivationPaths == {<<>>, <<"1">>}

\* A u32 that stands for a block height or enters the confirmation arithmetic is
\* the pair of its 16-bit halves, the high half first; u32(n) is the u32 of a
\* natural n below 2^31.
HalfModulus == 65536
u32(n) == <<n \div HalfModulus, n % HalfModulus>>
u32_MAX == <<HalfModulus - 1, HalfModulus - 1>>
\* x + y and the comparisons over the integers: the high half of a sum is not
\* reduced.
integer_sum(x, y) ==
    <<x[1] + y[1] + ((x[2] + y[2]) \div HalfModulus), (x[2] + y[2]) % HalfModulus>>
integer_less(x, y) == x[1] < y[1] \/ (x[1] = y[1] /\ x[2] < y[2])
integer_le(x, y) == x = y \/ integer_less(x, y)

\* The heights at which the chain, or this process, records an output.
Heights == {u32(10), u32(20)}
\* Outpoints (transaction id, output index) paying to the main address, and the
\* one paying to a derived address.
MainOutPoints == {"A", "B", "C"}
DerivedOutPoints == {"D"}
OutPoints == MainOutPoints \cup DerivedOutPoints
\* An output's value is fixed by the transaction that created it.
ValueOf(outpoint) ==
    CASE outpoint = "A" -> 1
      [] outpoint = "B" -> 2
      [] outpoint = "C" -> 4
      [] OTHER -> 8
MkUtxo(outpoint, height) ==
    [outpoint |-> outpoint, height |-> height, value |-> ValueOf(outpoint)]

(***************************************************************************)
(* bip32_extended_derivation.rs, address_management.rs: keys and addresses *)
(***************************************************************************)
\* Hmac<Sha512> keyed with the chain code, over the key and the index.  A
\* digest is written as what it was computed from, the key, the chain code and
\* the index, so that two digests are equal exactly when their inputs are.  A
\* key and a chain code that are the two halves of one earlier digest are
\* written as that digest, which keeps the names of a long path short.
hmac_input(chain_code, public_key) ==
    IF /\ Len(public_key) > 1
       /\ Len(chain_code) > 1
       /\ public_key[1] = "P"
       /\ chain_code[1] = "R"
       /\ Tail(public_key) = Tail(chain_code)
    THEN Tail(chain_code)
    ELSE <<"(">> \o public_key \o <<",">> \o chain_code \o <<")">>

\* The first 32 bytes of the digest, read as a number, and the last 32 bytes.
\* For almost every input the number is below the group order and is not zero;
\* the indexes NotReducedIndex and ZeroIndex stand for the inputs whose first 32
\* bytes are not below the order, or are all zero.
NotReducedIndex == "N"
ZeroIndex == "Z"
NotReducedScalar == <<"not reduced">>
ZeroScalar == <<"zero">>
hmac_output(chain_code, public_key, index) ==
    LET digest == Append(hmac_input(chain_code, public_key), index)
    IN <<CASE index = NotReducedIndex -> NotReducedScalar
           [] index = ZeroIndex -> ZeroScalar
           [] OTHER -> <<"L">> \o digest,
         <<"R">> \o digest>>

\* secp256k1_decode_point is Some: the empty key is no encoding of a point.
secp256k1_decode_point(bytes) == bytes # <<>>

\* Faulty variant: every 32 bytes decode to a scalar.
secp256k1_decode_scalar_unchecked(bytes) == TRUE

\* secp256k1_decode_scalar is Some: Scalar::from_repr refuses the numbers that
\* are not below the group order, and takes zero.
secp256k1_decode_scalar(bytes) == bytes # NotReducedScalar

\* The outcome of a call that panicked, with the message of the expect.
panicked(message) == <<<<"panic", message>>, <<>>>>
has_panicked(derived) == derived[2] = <<>>

\* The offset is the first half of a digest computed over this key.
is_digest_over(offset, public_key) ==
    /\ Len(offset) > 2
    /\ offset[1] = "L"
    /\ LET input == SubSeq(offset, 2, Len(offset) - 1)
       IN IF input[Len(input)] = ")"
          THEN /\ Len(input) >= Len(public_key) + 3
               /\ input[1] = "("
               /\ SubSeq(input, 2, Len(public_key) + 1) = public_key
               /\ input[Len(public_key) + 2] = ","
          ELSE public_key = <<"P">> \o input

\* Faulty variant: the offset is not added.
secp256k1_add_dropping_offset(public_key, offset) ==
    IF ~secp256k1_decode_scalar(offset) THEN panicked("Invalid scalar")[1]
    ELSE IF ~secp256k1_decode_point(public_key) THEN panicked("Invalid public key")[1]
    ELSE public_key

\* secp256k1_add: public_key + offset * G.  Adding zero times G gives the key
\* back.  The sum of a key and of a digest over that key is written as the
\* digest (which names the key), any other sum as its two terms.
secp256k1_add(public_key, offset) ==
    IF ~secp256k1_decode_scalar(offset) THEN panicked("Invalid scalar")[1]
    ELSE IF ~secp256k1_decode_point(public_key) THEN panicked("Invalid public key")[1]
    ELSE IF offset = ZeroScalar THEN public_key
    ELSE IF is_digest_over(offset, public_key) THEN <<"P">> \o Tail(offset)
    ELSE <<"(">> \o public_key \o <<"+">> \o offset \o <<")">>

\* One step of public derivation: the child key and chain code are a function of
\* the parent key, the parent chain code and the index; the step panics when the
\* first half of the HMAC is no scalar or the parent key no point.
ckdpub(public_key, chain_code, index) ==
    TheOnly({TheOnly({IF new_public_key \in {panicked("Invalid scalar")[1],
                                             panicked("Invalid public key")[1]}
                      THEN <<new_public_key, <<>>>>
                      ELSE <<new_public_key, output[2]>> :
                         new_public_key \in {secp256k1_add(public_key, output[1])}}) :
                output \in {hmac_output(chain_code, public_key, index)}})

\* Faulty variant: the second half of the path starts again from the chain
\* code the derivation was given.
RECURSIVE extended_bip32_derivation_restarting_chain_code(_, _, _)
extended_bip32_derivation_restarting_chain_code(public_key, chain_code, path) ==
    IF chain_code = <<>>
    THEN extended_bip32_derivation_restarting_chain_code(public_key, <<"0">>, path)
    ELSE IF path = <<>> THEN <<public_key, chain_code>>
    ELSE IF Len(path) = 1 THEN ckdpub(public_key, chain_code, path[1])
    ELSE LET half == Len(path) \div 2
         IN TheOnly({IF has_panicked(first) THEN first
                     ELSE extended_bip32_derivation_restarting_chain_code(
                              first[1], chain_code, SubSeq(path, half + 1, Len(path))) :
                        first \in {extended_bip32_derivation_restarting_chain_code(
                                       public_key, chain_code, SubSeq(path, 1, half))}})

\* An empty chain code stands for the all-zero one; then the loop over the
\* segments of the path, each step starting from the key and the chain code the
\* one before it produced, and ending at the first step that panics.  The loop
\* over a path is the loop over its first half followed by the loop over the
\* rest, which is how it is unfolded here for the paths of 255 segments.
RECURSIVE extended_bip32_derivation(_, _, _)
extended_bip32_derivation(public_key, chain_code, path) ==
    IF chain_code = <<>> THEN extended_bip32_derivation(public_key, <<"0">>, path)
    ELSE IF path = <<>> THEN <<public_key, chain_code>>
    ELSE IF Len(path) = 1 THEN ckdpub(public_key, chain_code, path[1])
    ELSE LET half == Len(path) \div 2
         IN TheOnly({IF has_panicked(first) THEN first
                     ELSE extended_bip32_derivation(first[1], first[2],
                                                    SubSeq(path, half + 1, Len(path))) :
                        first \in {extended_bip32_derivation(public_key, chain_code,
                                                             SubSeq(path, 1, half))}})

\* What a caller that expects an address is left with when the call panics.
PanickedAddress == [network |-> "none", kind |-> "panic", hash |-> <<>>]
unwrap_address(result) == IF result.ok THEN result.val ELSE PanickedAddress

\* get_address: PublicKey::from_slice refuses the bytes that encode no point;
\* otherwise a bitcoin::Address, a payload (the script type and the hash of the
\* key) on a network.
get_address_of_key(network, address_type, ecdsa_public_key) ==
    IF ~secp256k1_decode_point(ecdsa_public_key.public_key) THEN Err("Key")
    ELSE Ok([network |-> network, kind |-> address_type,
             hash |-> ecdsa_public_key.public_key])

\* The child key and its address; the call panics when the derivation does and
\* when get_address(..).unwrap() finds no address.
derive_ecdsa_public_key_and_address_from_extended_path(derivation_path, address_type, network, ecdsa_public_key) ==
    LET child == extended_bip32_derivation(ecdsa_public_key.public_key,
                                           ecdsa_public_key.chain_code, derivation_path)
        child_ecdsa_public_key ==
            [public_key |-> child[1], chain_code |-> child[2],
             derivation_path |-> ecdsa_public_key.derivation_path \o derivation_path]
    IN IF has_panicked(child) THEN <<child_ecdsa_public_key, PanickedAddress>>
       ELSE <<child_ecdsa_public_key,
              unwrap_address(get_address_of_key(network, address_type,
                                                child_ecdsa_public_key))>>

\* get_main_address: get_address(..).unwrap().
get_main_address(management_canister, address_type) ==
    unwrap_address(get_address_of_key(management_canister.network, address_type,
                                      management_canister.ecdsa_public_key))

(***************************************************************************)
(* upgrade_management.rs: addresses as (string, network) pairs             *)
(***************************************************************************)
\* The human-readable part that Address::to_string writes for a network: Base58
\* version bytes are shared by Testnet and Regtest, bech32 prefixes are not.
Prefix(network, kind) ==
    IF kind = "P2wpkh"
    THEN (CASE network = "Bitcoin" -> "bc" [] network = "Testnet" -> "tb" [] OTHER -> "bcrt")
    ELSE (IF network = "Bitcoin" THEN "main" ELSE "test")

\* The network Address::from_str reads back from the prefix.
NetworkOfPrefix(prefix) ==
    CASE prefix \in {"bc", "main"} -> "Bitcoin"
      [] prefix \in {"tb", "test"} -> "Testnet"
      [] OTHER -> "Regtest"

address_to_string(address) ==
    [kind |-> address.kind, hash |-> address.hash,
     prefix |-> Prefix(address.network, address.kind)]

address_from_str(address_string) ==
    [network |-> NetworkOfPrefix(address_string.prefix), kind |-> address_string.kind,
     hash |-> address_string.hash]

get_address_using_primitives(address) ==
    <<address_to_string(address), address.network>>

\* Faulty variant: the network is the one the string decodes to.
get_address_as_decoded(address_using_primitives) ==
    address_from_str(address_using_primitives[1])

\* The build: whether cfg!(all(not(test), locally)) holds, as in a build for a
\* local replica with --cfg locally.  It is fixed for the life of an agent.
VARIABLE locally

\* get_address: the string is parsed, and the network of the address is then
\* Regtest in a build for a local replica and the stored tag in any other.
get_address(address_using_primitives) ==
    [address_from_str(address_using_primitives[1])
        EXCEPT !.network = IF locally THEN "Regtest" ELSE address_using_primitives[2]]

(***************************************************************************)
(* The bytes of the keys, and the orders of the keys of the BTreeMaps      *)
(***************************************************************************)
\* The longest derivation path an address may be added with.
MaxDerivationPathLength == 255
LongestPath == [i \in 1..MaxDerivationPathLength |-> "1"]

\* The keys of the model are those of the repository's tests: "K" is the public
\* key of BTC_PRIVATE_KEY_WIF (02110b39..), "0" the all-zero chain code, "c" the
\* chain code of test_derive_ecdsa_keys_and_address_from_extended_path_1
\* (d84e7baa..), and the indexes "1", "0001" and "0002" are the bytes [1],
\* [0,0,0,1] and [0,0,0,2].  For each key derived from them, written as
\* extended_bip32_derivation writes it: the first bytes of its hash160 (the
\* payload of its P2pkh and P2wpkh addresses), the first bytes of the hash of
\* its script (the payload of its P2sh address: hash160 of the script, then
\* to_ascii_lowercase), and the characters that follow the leading "1" of its
\* P2pkh address on Bitcoin.  A step with ZeroIndex, the bytes [0,0,0,90],
\* leaves the key as it is and takes as chain code the second half of the digest
\* over those bytes ("R(K,0)Z", "R(K,c)Z").
KnownKeys ==
    {
      [public_key |-> <<"K">>,
       pubkey_hash |-> <<67, 28, 13, 85>>, script_hash |-> <<185, 42, 28, 127>>,
       base58 |-> <<55, 55, 113, 115>>],
      [public_key |-> <<"P", "(", "K", ",", "0", ")", "1">>,
       pubkey_hash |-> <<1, 23, 32, 75>>, script_hash |-> <<111, 227, 203, 121>>,
       base58 |-> <<54, 109, 80, 50>>],
      [public_key |-> <<"P", "(", "K", ",", "0", ")", "0001">>,
       pubkey_hash |-> <<16, 126, 186, 66>>, script_hash |-> <<53, 93, 238, 27>>,
       base58 |-> <<50, 87, 68, 100>>],
      [public_key |-> <<"P", "(", "K", ",", "0", ")", "0001", "0002">>,
       pubkey_hash |-> <<131, 17, 39, 254>>, script_hash |-> <<222, 12, 36, 125>>,
       base58 |-> <<67, 120, 50, 53>>],
      [public_key |-> <<"P", "(", "K", ",", "0", ")", "0001", "0002", "0001">>,
       pubkey_hash |-> <<64, 192, 116, 233>>, script_hash |-> <<50, 207, 141, 160>>,
       base58 |-> <<54, 117, 78, 111>>],
      [public_key |-> <<"P", "(", "K", ",", "0", ")">> \o LongestPath,
       pubkey_hash |-> <<32, 89, 183, 179>>, script_hash |-> <<235, 40, 115, 245>>,
       base58 |-> <<51, 120, 52, 54>>],
      [public_key |-> <<"P", "(", "K", ",", "c", ")", "1">>,
       pubkey_hash |-> <<161, 35, 81, 41>>, script_hash |-> <<109, 9, 232, 17>>,
       base58 |-> <<70, 104, 50, 54>>],
      [public_key |-> <<"P", "(", "K", ",", "c", ")", "0001">>,
       pubkey_hash |-> <<3, 132, 177, 113>>, script_hash |-> <<99, 40, 101, 174>>,
       base58 |-> <<75, 98, 122, 70>>],
      [public_key |-> <<"P", "(", "K", ",", "c", ")", "0001", "0002">>,
       pubkey_hash |-> <<250, 52, 137, 47>>, script_hash |-> <<180, 182, 91, 39>>,
       base58 |-> <<80, 111, 120, 115>>],
      [public_key |-> <<"P", "(", "K", ",", "c", ")", "0001", "0002", "0001">>,
       pubkey_hash |-> <<158, 53, 172, 238>>, script_hash |-> <<169, 255, 7, 103>>,
       base58 |-> <<70, 82, 89, 52>>],
      [public_key |-> <<"P", "(", "K", ",", "c", ")">> \o LongestPath,
       pubkey_hash |-> <<36, 156, 12, 165>>, script_hash |-> <<211, 25, 204, 206>>,
       base58 |-> <<52, 76, 97, 71>>],
      [public_key |-> <<"P", "(", "K", ",", "R", "(", "K", ",", "0", ")", "Z", ")", "0001">>,
       pubkey_hash |-> <<56, 117, 215, 120>>, script_hash |-> <<209, 161, 227, 160>>,
       base58 |-> <<54, 57, 89, 49>>],
      [public_key |-> <<"P", "(", "K", ",", "R", "(", "K", ",", "c", ")", "Z", ")", "0001">>,
       pubkey_hash |-> <<137, 86, 166, 233>>, script_hash |-> <<159, 166, 183, 142>>,
       base58 |-> <<68, 88, 66, 78>>]
    }
\* The bytes of a key; none are given for a key that is not in the table.
bytes_of_key(public_key) ==
    TheOnly({IF \E row \in rows : row.public_key = public_key
             THEN CHOOSE row \in rows : row.public_key = public_key
             ELSE [public_key |-> public_key, pubkey_hash |-> <<>>,
                   script_hash |-> <<>>, base58 |-> <<>>] :
                rows \in {KnownKeys}})

\* The bytes of the payload of an address: PubkeyHash and WitnessProgram hold
\* hash160 of the key, ScriptHash the hash of the script.
payload_bytes(kind, public_key) ==
    bytes_of_key(public_key)[IF kind = "P2sh" THEN "script_hash" ELSE "pubkey_hash"]

\* The order of byte strings (Ord of [u8] and of str): by the first byte that
\* differs, a proper prefix first.
BytesLess(s, t) ==
    LET shorter == IF Len(s) < Len(t) THEN Len(s) ELSE Len(t)
        differing == {i \in 1..shorter : s[i] # t[i]}
        first == CHOOSE i \in differing : \A j \in differing : i <= j
    IN IF differing = {} THEN Len(s) < Len(t)
       ELSE s[first] < t[first]

\* The order of bitcoin::Address (derived Ord): by payload, the script type then
\* the bytes of the hash, then by network.
KindRank(kind) == CASE kind = "P2pkh" -> 0 [] kind = "P2sh" -> 1 [] OTHER -> 2
NetworkRank(network) ==
    CASE network = "Bitcoin" -> 0 [] network = "Testnet" -> 1 [] OTHER -> 3
AddressLess(a, b) ==
    IF a.kind # b.kind THEN KindRank(a.kind) < KindRank(b.kind)
    ELSE IF a.hash # b.hash
    THEN BytesLess(payload_bytes(a.kind, a.hash), payload_bytes(b.kind, b.hash))
    ELSE NetworkRank(a.network) < NetworkRank(b.network)

\* The characters of the bech32 alphabet, by the value of the five bits each
\* stands for: "qpzry9x8gf2tvdw0s3jn54khce6mua7l".
Bech32Charset ==
    <<113, 112, 122, 114, 121, 57, 120, 56, 103, 102, 50, 116, 118, 100, 119, 48,
      115, 51, 106, 110, 53, 52, 107, 104, 99, 101, 54, 109, 117, 97, 55, 108>>
\* The characters that bech32 writes for the first 20 bits of a witness program.
bech32_data(bytes) ==
    IF Len(bytes) < 3 THEN <<>>
    ELSE LET bits == bytes[1] * 65536 + bytes[2] * 256 + bytes[3]
         IN [i \in 1..4 |-> Bech32Charset[((bits \div (2 ^ (24 - 5 * i))) % 32) + 1]]

\* The order of the strings of the addresses (String's Ord, byte by byte).
\* Base58 writes "1..." on Bitcoin and "m..." or "n..." elsewhere for a key
\* hash, "3..." on Bitcoin and "2..." elsewhere for a script hash; bech32
\* writes "bc1q", "bcrt1q" and "tb1q".
StringRank(address_string) ==
    CASE address_string.prefix = "bc" -> 3
      [] address_string.prefix = "bcrt" -> 4
      [] address_string.prefix = "tb" -> 6
      [] address_string.prefix = "main" -> (IF address_string.kind = "P2sh" THEN 2 ELSE 0)
      [] OTHER -> (IF address_string.kind = "P2sh" THEN 1 ELSE 5)
\* What orders two strings that start alike.  The Base58 strings of one version
\* byte other than zero have one length and are ordered as the bytes they
\* encode; those of version byte zero (P2pkh on Bitcoin) are not.
string_tail(address_string) ==
    TheOnly({IF address_string.kind = "P2wpkh" THEN bech32_data(bytes) ELSE bytes :
                bytes \in {bytes_of_key(address_string.hash)[
                               CASE address_string.kind = "P2sh" -> "script_hash"
                                 [] address_string.kind # "P2wpkh"
                                    /\ address_string.prefix = "main" -> "base58"
                                 [] OTHER -> "pubkey_hash"]}})
StringLess(s, t) ==
    IF StringRank(s) # StringRank(t) THEN StringRank(s) < StringRank(t)
    ELSE BytesLess(string_tail(s), string_tail(t))
\* The order of the network tags of the snapshot (Network of types.rs, derived
\* Ord): Bitcoin, Regtest, Testnet.
TagRank(network) ==
    CASE network = "Bitcoin" -> 0 [] network = "Regtest" -> 1 [] OTHER -> 2
\* The order of the keys of a BTreeMap<(String, Network), _>: by the string,
\* then by the network tag.
KeyLess(p, q) ==
    IF p[1] # q[1] THEN StringLess(p[1], q[1])
    ELSE TagRank(p[2]) < TagRank(q[2])
\* The first key that the iterator of such a map yields.
first_key(todo) == CHOOSE k \in todo : \A q \in todo \ {k} : KeyLess(k, q)

(***************************************************************************)
(* types.rs: UtxosState, UtxosUpdate, BalanceUpdate                        *)
(***************************************************************************)
\* UtxosState::new: the four layers empty, the confirmation depth as requested.
UtxosState_new(min_confirmations) ==
    [min_confirmations |-> min_confirmations, seen_state |-> <<>>, unseen_state |-> <<>>,
     spent_state |-> <<>>, generated_state |-> <<>>]

\* UtxosUpdate::from_state: added = in unseen and not in seen, removed = in seen
\* and not in unseen.
UtxosUpdate_from_state(seen_state, unseen_state) ==
    [added_utxos |-> Range(unseen_state) \ Range(seen_state),
     removed_utxos |-> Range(seen_state) \ Range(unseen_state)]

UtxosUpdate_new == [added_utxos |-> {}, removed_utxos |-> {}]

\* get_balance_from_utxos (utxo_management.rs): the sum of the values of a
\* slice, every element counted as often as it is listed.  The values of the
\* model are small: no sum comes near the width of a Satoshi (u64).
RECURSIVE get_balance_from_utxos(_)
get_balance_from_utxos(utxos) ==
    IF utxos = <<>> THEN 0
    ELSE Head(utxos).value + get_balance_from_utxos(Tail(utxos))

\* The Vec that a UtxosUpdate holds of a set of UTXOs: each once, in some order.
RECURSIVE vec_of(_)
vec_of(utxos) ==
    IF utxos = {} THEN <<>>
    ELSE LET u == CHOOSE x \in utxos : TRUE IN <<u>> \o vec_of(utxos \ {u})

\* BalanceUpdate::from(UtxosUpdate): the totals of the added and removed values.
BalanceUpdate_from(utxos_update) ==
    [added_balance |-> get_balance_from_utxos(vec_of(utxos_update.added_utxos)),
     removed_balance |-> get_balance_from_utxos(vec_of(utxos_update.removed_utxos))]

(***************************************************************************)
(* utxo_management.rs: the diff engine.  Each operator takes the agent's   *)
(* utxos_state_addresses map; a mutating one returns the result and the    *)
(* map it leaves.                                                          *)
(***************************************************************************)
\* Faulty variant: the two layers diffed the other way round.
peek_utxos_update_swapped(usa, address) ==
    IF address \notin DOMAIN usa THEN Err("AddressNotTracked")
    ELSE Ok(UtxosUpdate_from_state(usa[address].unseen_state, usa[address].seen_state))

\* peek_utxos_update
peek_utxos_update(usa, address) ==
    IF address \notin DOMAIN usa THEN Err("AddressNotTracked")
    ELSE Ok(UtxosUpdate_from_state(usa[address].seen_state, usa[address].unseen_state))

\* Faulty variant: seen is left as it is.
update_state_without_copy(usa, address) ==
    IF address \notin DOMAIN usa
    THEN [result |-> Err("AddressNotTracked"), state |-> usa]
    ELSE [result |-> Ok(Unit), state |-> usa]

\* Faulty variant: unseen is appended to seen.
update_state_appending(usa, address) ==
    IF address \notin DOMAIN usa
    THEN [result |-> Err("AddressNotTracked"), state |-> usa]
    ELSE LET unseen_state == usa[address].unseen_state
         IN [result |-> Ok(Unit),
             state |-> [usa EXCEPT ![address].seen_state = @ \o unseen_state]]

\* Faulty variant: seen is copied into unseen.
update_state_from_seen(usa, address) ==
    IF address \notin DOMAIN usa
    THEN [result |-> Err("AddressNotTracked"), state |-> usa]
    ELSE LET seen_state == usa[address].seen_state
         IN [result |-> Ok(Unit),
             state |-> [usa EXCEPT ![address].unseen_state = seen_state]]

\* Faulty variant: every tracked address is committed.
update_state_of_every_address(usa, address) ==
    IF address \notin DOMAIN usa
    THEN [result |-> Err("AddressNotTracked"), state |-> usa]
    ELSE [result |-> Ok(Unit),
          state |-> [a \in DOMAIN usa |->
                        [usa[a] EXCEPT !.seen_state = usa[a].unseen_state]]]

\* update_state
update_state(usa, address) ==
    IF address \notin DOMAIN usa
    THEN [result |-> Err("AddressNotTracked"), state |-> usa]
    ELSE LET unseen_state == usa[address].unseen_state
         IN [result |-> Ok(Unit),
             state |-> [usa EXCEPT ![address].seen_state = unseen_state]]

\* Faulty variant: the diff is taken after the commit.
get_utxos_update_peek_after(usa, address) ==
    LET updated == update_state(usa, address)
    IN IF ~updated.result.ok THEN [result |-> updated.result, state |-> usa]
       ELSE [result |-> peek_utxos_update(updated.state, address), state |-> updated.state]

\* get_utxos_update
get_utxos_update(usa, address) ==
    LET utxos_update == peek_utxos_update(usa, address)
    IN IF ~utxos_update.ok THEN [result |-> utxos_update, state |-> usa]
       ELSE [result |-> utxos_update, state |-> update_state(usa, address).state]

peek_balance_update(usa, address) ==
    LET utxos_update == peek_utxos_update(usa, address)
    IN IF ~utxos_update.ok THEN utxos_update
       ELSE Ok(BalanceUpdate_from(utxos_update.val))

\* Faulty variant: the balance update is returned and nothing is committed.
get_balance_update_without_commit(usa, address) ==
    [result |-> peek_balance_update(usa, address), state |-> usa]

\* get_balance_update
get_balance_update(usa, address) ==
    LET got == get_utxos_update(usa, address)
    IN IF ~got.result.ok THEN got
       ELSE [result |-> Ok(BalanceUpdate_from(got.result.val)), state |-> got.state]

(***************************************************************************)
(* agent.rs: the reconcile pipeline                                        *)
(***************************************************************************)
get_utxos_args(usa, network, address, min_confirmations) ==
    [network |-> network, address |-> address, min_confirmations |-> min_confirmations,
     utxos_state |-> IF address \in DOMAIN usa THEN usa[address]
                     ELSE UtxosState_new(min_confirmations)]

\* Faulty variant: the generated outputs are left out.
append_generated_dropped(utxos, generated_state) == utxos

\* utxos.append(&mut utxos_state.generated_state.clone())
append_generated(utxos, generated_state) == utxos \o generated_state

\* utxos.retain(|utxo| spent_state.iter().all(|spent| utxo.outpoint != spent))
retain_unspent(utxos, spent_state) ==
    SelectSeq(utxos, LAMBDA utxo : \A i \in 1..Len(spent_state) : utxo.outpoint # spent_state[i])

\* Faulty variant: the record of the lowest height is kept.
insert_occurrence_lowest(utxos_occurrences, utxo) ==
    IF utxo.outpoint \in DOMAIN utxos_occurrences
    THEN IF integer_less(utxo.height, utxos_occurrences[utxo.outpoint].height)
         THEN [utxos_occurrences EXCEPT ![utxo.outpoint] = utxo]
         ELSE utxos_occurrences
    ELSE (utxo.outpoint :> utxo) @@ utxos_occurrences

\* One step of the for_each over utxos: the HashMap<OutPoint, Utxo> after utxo.
insert_occurrence(utxos_occurrences, utxo) ==
    IF utxo.outpoint \in DOMAIN utxos_occurrences
    THEN IF integer_less(utxos_occurrences[utxo.outpoint].height, utxo.height)
         THEN [utxos_occurrences EXCEPT ![utxo.outpoint] = utxo]
         ELSE utxos_occurrences
    ELSE (utxo.outpoint :> utxo) @@ utxos_occurrences

RECURSIVE collect_occurrences(_, _)
collect_occurrences(utxos_occurrences, utxos) ==
    IF utxos = <<>> THEN utxos_occurrences
    ELSE collect_occurrences(insert_occurrence(utxos_occurrences, Head(utxos)), Tail(utxos))

\* utxos_occurrences.values().cloned().collect(): a HashMap yields its values in
\* an order the program does not fix, so every ordering is a possible outcome.
occurrence_values(utxos_occurrences) ==
    Orderings({utxos_occurrences[o] : o \in DOMAIN utxos_occurrences})

\* Faulty variant: the spent outputs are removed before the generated ones are added.
reconciled_utxos_retain_first(response_utxos, utxos_state) ==
    IF utxos_state.min_confirmations = 0
    THEN occurrence_values(
             collect_occurrences(<<>>,
                 append_generated(retain_unspent(response_utxos, utxos_state.spent_state),
                                  utxos_state.generated_state)))
    ELSE {response_utxos}

\* Faulty variant: the response is processed whatever min_confirmations is.
reconciled_utxos_always(response_utxos, utxos_state) ==
    occurrence_values(
        collect_occurrences(<<>>,
            retain_unspent(append_generated(response_utxos, utxos_state.generated_state),
                           utxos_state.spent_state)))

\* The lists get_utxos_from_args_common can return for a response and the
\* UtxosState copied into the request.
reconciled_utxos(response_utxos, utxos_state) ==
    IF utxos_state.min_confirmations = 0
    THEN occurrence_values(
             collect_occurrences(<<>>,
                 retain_unspent(append_generated(response_utxos, utxos_state.generated_state),
                                utxos_state.spent_state)))
    ELSE {response_utxos}

get_utxos_from_args_common(address, get_utxos_response, utxos_state) ==
    {Ok([address |-> address, utxos |-> utxos, tip_height |-> get_utxos_response.tip_height]) :
        utxos \in reconciled_utxos(get_utxos_response.utxos, utxos_state)}

\* Faulty variant: the result's list is installed as seen as well.
apply_utxos_committing(usa, utxos_result) ==
    IF utxos_result.address \notin DOMAIN usa
    THEN [result |-> Err("panic"), state |-> usa]
    ELSE LET state == [usa EXCEPT ![utxos_result.address].unseen_state = utxos_result.utxos,
                                  ![utxos_result.address].seen_state = utxos_result.utxos]
         IN [result |-> Ok(UtxosUpdate_from_state(state[utxos_result.address].seen_state,
                                                  state[utxos_result.address].unseen_state)),
             state |-> state]

\* Faulty variant: the spent outpoints are forgotten once a result is applied.
apply_utxos_forgetting_spent(usa, utxos_result) ==
    IF utxos_result.address \notin DOMAIN usa
    THEN [result |-> Err("panic"), state |-> usa]
    ELSE LET state == [usa EXCEPT ![utxos_result.address].unseen_state = utxos_result.utxos,
                                  ![utxos_result.address].spent_state = <<>>]
         IN [result |-> Ok(UtxosUpdate_from_state(state[utxos_result.address].seen_state,
                                                  state[utxos_result.address].unseen_state)),
             state |-> state]

\* apply_utxos: the unwrap panics when the result's address is not tracked, and
\* the call then leaves no trace in the agent.
apply_utxos(usa, utxos_result) ==
    IF utxos_result.address \notin DOMAIN usa
    THEN [result |-> Err("panic"), state |-> usa]
    ELSE LET state == [usa EXCEPT ![utxos_result.address].unseen_state = utxos_result.utxos]
         IN [result |-> Ok(UtxosUpdate_from_state(state[utxos_result.address].seen_state,
                                                  state[utxos_result.address].unseen_state)),
             state |-> state]

\* One address's share of apply_multi_transfer_result: push the outpoint of every
\* input listed for it onto spent_state.
push_spent(usa, address, utxos) ==
    [usa EXCEPT ![address].spent_state =
        @ \o [i \in 1..Len(utxos) |-> utxos[i].outpoint]]

\* Faulty variant: a recipient without UtxosState gets one with depth 1.
append_generated_utxos_at_depth_one(usa, address, utxos) ==
    LET with_state == IF address \in DOMAIN usa THEN usa
                      ELSE (address :> UtxosState_new(1)) @@ usa
    IN [with_state EXCEPT ![address].generated_state = @ \o utxos]

\* One address's share of apply_multi_transfer_result: append the generated
\* outputs, creating a UtxosState with min_confirmations 0 if there is none.
append_generated_utxos(usa, address, utxos) ==
    LET with_state == IF address \in DOMAIN usa THEN usa
                      ELSE (address :> UtxosState_new(0)) @@ usa
    IN [with_state EXCEPT ![address].generated_state = @ \o utxos]

\* The first loop of apply_multi_transfer_result, over the keys of the inputs
\* in the order of the map: get_mut(..).unwrap() panics at the first key that
\* lists an input for an address with no UtxosState, and what the keys before
\* it have pushed stays.
RECURSIVE push_spent_all(_, _, _)
push_spent_all(usa, utxos_addresses, todo) ==
    IF todo = {} THEN [result |-> Ok(Unit), state |-> usa]
    ELSE LET key == first_key(todo)
             address == get_address(key)
             utxos == utxos_addresses[key]
         IN IF utxos = <<>> THEN push_spent_all(usa, utxos_addresses, todo \ {key})
            ELSE IF address \notin DOMAIN usa
            THEN [result |-> Err("panic"), state |-> usa]
            ELSE push_spent_all(push_spent(usa, address, utxos),
                                utxos_addresses, todo \ {key})

\* The second loop, over the keys of the outputs in the order of the map.
RECURSIVE append_generated_all(_, _, _)
append_generated_all(usa, utxos_addresses, todo) ==
    IF todo = {} THEN usa
    ELSE LET key == first_key(todo)
         IN append_generated_all(
                append_generated_utxos(usa, get_address(key), utxos_addresses[key]),
                utxos_addresses, todo \ {key})

\* apply_multi_transfer_result: the inputs are pushed, then the outputs are
\* appended; a panic in the first loop ends the call with what was pushed.
apply_multi_transfer_result(usa, multi_transfer_result) ==
    LET spent == multi_transfer_result.transaction_info.utxos_addresses
        generated == multi_transfer_result.generated_utxos_addresses
        pushed == push_spent_all(usa, spent, DOMAIN spent)
    IN IF ~pushed.result.ok THEN pushed
       ELSE [result |-> Ok(Unit),
             state |-> append_generated_all(pushed.state, generated, DOMAIN generated)]

(***************************************************************************)
(* address_management.rs: the registry                                     *)
(***************************************************************************)
\* MIN_CONFIRMATIONS_UPPER_BOUND (types.rs): the greatest confirmation depth an
\* agent or an address may ask for.
MIN_CONFIRMATIONS_UPPER_BOUND == 6

\* A map without one key (BTreeMap::remove, HashMap::remove).
Without(map, key) == [k \in DOMAIN map \ {key} |-> map[k]]

\* Faulty variant: the address is inserted again when it is already managed.
add_address_from_extended_path_reinserting(agent, derivation_path, address_type, min_confirmations) ==
    TheOnly({LET address == derived[2]
             IN IF address = PanickedAddress
                THEN [result |-> address,
                      ecdsa_pub_key_addresses |-> agent.ecdsa_pub_key_addresses,
                      utxos_state_addresses |-> agent.utxos_state_addresses]
                ELSE [result |-> address,
                      ecdsa_pub_key_addresses |->
                          (address :> derived[1]) @@ agent.ecdsa_pub_key_addresses,
                      utxos_state_addresses |->
                          (address :> UtxosState_new(min_confirmations)) @@ agent.utxos_state_addresses] :
        derived \in {derive_ecdsa_public_key_and_address_from_extended_path(
                       derivation_path, address_type, agent.management_canister.network,
                       agent.management_canister.ecdsa_public_key)}})

\* add_address_from_extended_path: the address, and the two maps it leaves; a
\* panic of the derivation unwinds before either map is touched.
add_address_from_extended_path(agent, derivation_path, address_type, min_confirmations) ==
    TheOnly({LET address == derived[2]
             IN IF address # PanickedAddress /\ address \notin DOMAIN agent.ecdsa_pub_key_addresses
                THEN [result |-> address,
                      ecdsa_pub_key_addresses |-> (address :> derived[1]) @@ agent.ecdsa_pub_key_addresses,
                      utxos_state_addresses |->
                          (address :> UtxosState_new(min_confirmations)) @@ agent.utxos_state_addresses]
                ELSE [result |-> address,
                      ecdsa_pub_key_addresses |-> agent.ecdsa_pub_key_addresses,
                      utxos_state_addresses |-> agent.utxos_state_addresses] :
        derived \in {derive_ecdsa_public_key_and_address_from_extended_path(
                       derivation_path, address_type, agent.management_canister.network,
                       agent.management_canister.ecdsa_public_key)}})

\* Faulty variant: a path of MaxDerivationPathLength segments is refused.
add_address_with_parameters_refusing_longest(agent, derivation_path, address_type, min_confirmations) ==
    IF min_confirmations > MIN_CONFIRMATIONS_UPPER_BOUND
    THEN [result |-> Err("MinConfirmationsTooHigh"),
          ecdsa_pub_key_addresses |-> agent.ecdsa_pub_key_addresses,
          utxos_state_addresses |-> agent.utxos_state_addresses]
    ELSE IF Len(derivation_path) >= MaxDerivationPathLength
    THEN [result |-> Err("DerivationPathTooLong"),
          ecdsa_pub_key_addresses |-> agent.ecdsa_pub_key_addresses,
          utxos_state_addresses |-> agent.utxos_state_addresses]
    ELSE TheOnly({IF added.result = PanickedAddress THEN [added EXCEPT !.result = Err("panic")]
                  ELSE [added EXCEPT !.result = Ok(added.result)] :
                     added \in {add_address_from_extended_path(agent, derivation_path,
                                                               address_type, min_confirmations)}})

\* add_address_with_parameters: the confirmation depth is checked, then the
\* length of the path, then the address is derived and added; a panic of the
\* derivation unwinds through the call.
add_address_with_parameters(agent, derivation_path, address_type, min_confirmations) ==
    IF min_confirmations > MIN_CONFIRMATIONS_UPPER_BOUND
    THEN [result |-> Err("MinConfirmationsTooHigh"),
          ecdsa_pub_key_addresses |-> agent.ecdsa_pub_key_addresses,
          utxos_state_addresses |-> agent.utxos_state_addresses]
    ELSE IF Len(derivation_path) > MaxDerivationPathLength
    THEN [result |-> Err("DerivationPathTooLong"),
          ecdsa_pub_key_addresses |-> agent.ecdsa_pub_key_addresses,
          utxos_state_addresses |-> agent.utxos_state_addresses]
    ELSE TheOnly({IF added.result = PanickedAddress THEN [added EXCEPT !.result = Err("panic")]
                  ELSE [added EXCEPT !.result = Ok(added.result)] :
                     added \in {add_address_from_extended_path(agent, derivation_path,
                                                               address_type, min_confirmations)}})

\* Faulty variant: the main address is removed like any other.
remove_address_any(agent, address) ==
    LET address_can_be_removed == address \in DOMAIN agent.ecdsa_pub_key_addresses
    IN IF address_can_be_removed
       THEN [result |-> Ok(TRUE),
             ecdsa_pub_key_addresses |-> Without(agent.ecdsa_pub_key_addresses, address),
             utxos_state_addresses |-> Without(agent.utxos_state_addresses, address)]
       ELSE [result |-> Ok(FALSE),
             ecdsa_pub_key_addresses |-> agent.ecdsa_pub_key_addresses,
             utxos_state_addresses |-> agent.utxos_state_addresses]

\* Faulty variant: the UtxosState of the removed address is kept.
remove_address_keeping_utxos(agent, address) ==
    LET managed == address \in DOMAIN agent.ecdsa_pub_key_addresses
        main_address == get_main_address(agent.management_canister, agent.main_address_type)
        address_can_be_removed == managed /\ address # main_address
    IN IF managed /\ main_address = PanickedAddress
       THEN [result |-> Err("panic"),
             ecdsa_pub_key_addresses |-> agent.ecdsa_pub_key_addresses,
             utxos_state_addresses |-> agent.utxos_state_addresses]
       ELSE IF address_can_be_removed
       THEN [result |-> Ok(TRUE),
             ecdsa_pub_key_addresses |-> Without(agent.ecdsa_pub_key_addresses, address),
             utxos_state_addresses |-> agent.utxos_state_addresses]
       ELSE [result |-> Ok(FALSE),
             ecdsa_pub_key_addresses |-> agent.ecdsa_pub_key_addresses,
             utxos_state_addresses |-> agent.utxos_state_addresses]

\* remove_address: whether the address was removed, and the two maps it leaves.
\* The main address is computed only for a managed address (&&), and the call
\* panics when it cannot be.
remove_address(agent, address) ==
    LET managed == address \in DOMAIN agent.ecdsa_pub_key_addresses
        main_address == get_main_address(agent.management_canister, agent.main_address_type)
        address_can_be_removed == managed /\ address # main_address
    IN IF managed /\ main_address = PanickedAddress
       THEN [result |-> Err("panic"),
             ecdsa_pub_key_addresses |-> agent.ecdsa_pub_key_addresses,
             utxos_state_addresses |-> agent.utxos_state_addresses]
       ELSE IF address_can_be_removed
       THEN [result |-> Ok(TRUE),
             ecdsa_pub_key_addresses |-> Without(agent.ecdsa_pub_key_addresses, address),
             utxos_state_addresses |-> Without(agent.utxos_state_addresses, address)]
       ELSE [result |-> Ok(FALSE),
             ecdsa_pub_key_addresses |-> agent.ecdsa_pub_key_addresses,
             utxos_state_addresses |-> agent.utxos_state_addresses]

\* The keys of a BTreeMap<Address, _>, in the order its iterator yields them.
RECURSIVE keys(_)
keys(addresses) ==
    IF addresses = {} THEN <<>>
    ELSE LET least == CHOOSE a \in addresses : \A b \in addresses \ {a} : AddressLess(a, b)
         IN <<least>> \o keys(addresses \ {least})

\* Faulty variant: the addresses that have a UtxosState are listed.
list_addresses_of_utxos_states(agent) == keys(DOMAIN agent.utxos_state_addresses)

\* list_addresses: the keys of the registry.
list_addresses(agent) == keys(DOMAIN agent.ecdsa_pub_key_addresses)

(***************************************************************************)
(* upgrade_management.rs: the agent as a BitcoinAgentState and back        *)
(***************************************************************************)
\* Of the keys of a snapshot that decode to one address, the one whose entry
\* the collected BTreeMap<Address, _> ends up with: the last in key order.
last_decoding_to(address, addresses_using_primitives) ==
    LET decoding == {p \in addresses_using_primitives : get_address(p) = address}
    IN CHOOSE p \in decoding :
          \A q \in decoding \ {p} :
              KeyLess(q, p)

\* get_state: every field of the agent, the keys of both maps as (string,
\* network) pairs.
get_state(bitcoin_agent) ==
    [network |-> bitcoin_agent.management_canister.network,
     main_address_type |-> bitcoin_agent.main_address_type,
     ecdsa_pub_key_addresses |->
         [p \in {get_address_using_primitives(a) : a \in DOMAIN bitcoin_agent.ecdsa_pub_key_addresses} |->
             bitcoin_agent.ecdsa_pub_key_addresses[
                 CHOOSE a \in DOMAIN bitcoin_agent.ecdsa_pub_key_addresses :
                     get_address_using_primitives(a) = p]],
     utxos_state_addresses |->
         [p \in {get_address_using_primitives(a) : a \in DOMAIN bitcoin_agent.utxos_state_addresses} |->
             bitcoin_agent.utxos_state_addresses[
                 CHOOSE a \in DOMAIN bitcoin_agent.utxos_state_addresses :
                     get_address_using_primitives(a) = p]],
     min_confirmations |-> bitcoin_agent.min_confirmations,
     ecdsa_pub_key |-> bitcoin_agent.management_canister.ecdsa_public_key]

\* from_state: the agent of a BitcoinAgentState, its management canister built
\* from the network and the public key of the snapshot.
from_state(bitcoin_agent_state) ==
    [management_canister |-> [network |-> bitcoin_agent_state.network,
                              ecdsa_public_key |-> bitcoin_agent_state.ecdsa_pub_key],
     main_address_type |-> bitcoin_agent_state.main_address_type,
     ecdsa_pub_key_addresses |->
         [a \in {get_address(p) : p \in DOMAIN bitcoin_agent_state.ecdsa_pub_key_addresses} |->
             bitcoin_agent_state.ecdsa_pub_key_addresses[
                 last_decoding_to(a, DOMAIN bitcoin_agent_state.ecdsa_pub_key_addresses)]],
     min_confirmations |-> bitcoin_agent_state.min_confirmations,
     utxos_state_addresses |->
         [a \in {get_address(p) : p \in DOMAIN bitcoin_agent_state.utxos_state_addresses} |->
             bitcoin_agent_state.utxos_state_addresses[
                 last_decoding_to(a, DOMAIN bitcoin_agent_state.utxos_state_addresses)]]]

(***************************************************************************)
(* The agent and its callers.                                              *)
(***************************************************************************)
VARIABLES
    \* BitcoinAgent
    management_canister,       \* its network and ECDSA public key
    main_address_type,
    ecdsa_pub_key_addresses,   \* the registry: Address -> EcdsaPubKey
    min_confirmations,         \* the agent's default confirmation depth
    utxos_state_addresses,     \* Address -> UtxosState
    \* the caller's outstanding reconcile: nothing, the UtxosArgs handed to the
    \* oracle call, or the UtxosResult it returned (with the raw response)
    inflight,
    \* a second reconcile of the caller, set aside while it goes on with the
    \* first: get_utxos_from_args borrows nothing of the agent
    waiting,
    \* which of the observers below follows the run
    observer,
    \* the call made last: its name, its address argument, what it returned
    last,
    \* per address, the last peek and what became of it
    peeked,
    \* per address, the caller's set rebuilt from the updates get_utxos_update
    \* returned
    reported,
    \* progress of the reconcile, commit, reconcile, peek scenario on the main address
    scenario,
    \* per address, the outpoints its spent list held at a call made while no
    \* reconcile was outstanding
    ever_spent

agent_vars == <<management_canister, main_address_type, ecdsa_pub_key_addresses,
                min_confirmations, utxos_state_addresses>>
vars == <<management_canister, main_address_type, ecdsa_pub_key_addresses,
          min_confirmations, utxos_state_addresses, inflight, last, observer, peeked,
          reported, scenario, ever_spent, locally, waiting>>

agent == [management_canister |-> management_canister,
          main_address_type |-> main_address_type,
          ecdsa_pub_key_addresses |-> ecdsa_pub_key_addresses,
          min_confirmations |-> min_confirmations,
          utxos_state_addresses |-> utxos_state_addresses]

\* What the callers of the model pass in.
AgentNetwork == "Regtest"
CallAddressTypes == {"P2pkh"}
CallMinConfirmations == {0, 1}
TipHeights == {u32(20)}
\* The addresses a caller names: those the agent can derive.
AllAddresses ==
    {derive_ecdsa_public_key_and_address_from_extended_path(p, t, AgentNetwork, MasterKey)[2] :
        p \in DerivationPaths, t \in CallAddressTypes}
MainAddress == get_main_address([network |-> AgentNetwork, ecdsa_public_key |-> MasterKey], "P2pkh")
NoAddress == [network |-> "none", kind |-> "none", hash |-> <<>>]

\* The outputs, among outpoints, that pay to an address, at the given heights.
UtxosOf(address, outpoints, heights) ==
    {MkUtxo(o, h) : o \in outpoints \cap (IF address = MainAddress THEN MainOutPoints
                                                                   ELSE DerivedOutPoints),
                    h \in heights}
Responses(lists) == {[utxos |-> utxos, tip_height |-> tip] : utxos \in lists, tip \in TipHeights}

\* An oracle that reports the unspent outputs of an address as a chain does:
\* each outpoint at most once, in the order of the chain.
ChainOrder == <<"A", "B", "C", "D">>
InChainOrder(utxos) ==
    LET picked(i) == {u \in utxos : u.outpoint = ChainOrder[i]}
        RECURSIVE from(_)
        from(i) == IF i > Len(ChainOrder) THEN <<>>
                   ELSE IF picked(i) = {} THEN from(i + 1)
                   ELSE <<CHOOSE u \in picked(i) : TRUE>> \o from(i + 1)
    IN from(1)
ChainOracle(outpoints, heights) ==
    [a \in AllAddresses |->
        Responses({InChainOrder(S) : S \in {T \in SUBSET UtxosOf(a, outpoints, heights) :
            \A u, v \in T : u.outpoint = v.outpoint => u = v}})]

NoRequest == [stage |-> "none"]
NoPeek == [stage |-> "none"]

\* The caller's copy of an address's UTXO set, kept by applying the updates that
\* get_utxos_update returns; no longer kept once a commit returns no UtxosUpdate.
Following(utxos) == [utxos |-> utxos, followed |-> TRUE]
NotFollowed == [utxos |-> {}, followed |-> FALSE]
apply_update(utxos, utxos_update) ==
    (utxos \cup utxos_update.added_utxos) \ utxos_update.removed_utxos

\* The UTXOs of the scenario of the diff test: {A, B}, commit, {B, C}, peek.
UtxoA == MkUtxo("A", u32(10))
UtxoB == MkUtxo("B", u32(10))
UtxoC == MkUtxo("C", u32(10))

Call(op, address, result) == [address |-> address, result |-> result, op |-> op]

(***************************************************************************)
(* Observers: what a caller can record of the calls it makes.  Each is a   *)
(* function of the state before the call and of the call and its result.   *)
(***************************************************************************)
IsNewAddress(call) ==
    /\ call.op = "add_address"
    /\ call.result.ok
    /\ call.address \notin DOMAIN ecdsa_pub_key_addresses

\* After a peek on an address: its result, the set the caller expects seen to be
\* once it commits ((seen + added) - removed), the unseen set the peek was taken
\* of, and whether a reconcile of the address has come in between (stale).
PeekedNow(address) ==
    LET utxos_update == peek_utxos_update(utxos_state_addresses, address).val
    IN [stage |-> "peeked", stale |-> FALSE,
        expected |-> apply_update(Range(utxos_state_addresses[address].seen_state), utxos_update),
        unseen |-> Range(utxos_state_addresses[address].unseen_state)]

NextPeeked(call) ==
    IF call.op = "initialize" THEN [a \in AllAddresses |-> NoPeek]
    ELSE IF IsNewAddress(call) THEN [peeked EXCEPT ![call.address] = NoPeek]
    ELSE IF ~call.result.ok THEN peeked
    ELSE IF call.op \in {"peek_utxos_update", "peek_balance_update"}
    THEN [peeked EXCEPT ![call.address] = PeekedNow(call.address)]
    ELSE IF call.op = "apply_utxos" /\ peeked[call.address].stage = "peeked"
    THEN [peeked EXCEPT ![call.address].stale = TRUE]
    ELSE IF call.op = "apply_utxos" THEN [peeked EXCEPT ![call.address] = NoPeek]
    ELSE IF call.op = "update_state" /\ peeked[call.address].stage = "peeked"
    THEN [peeked EXCEPT ![call.address].stage = "committed"]
    ELSE IF call.op \in {"update_state", "get_utxos_update", "get_balance_update"}
    THEN [peeked EXCEPT ![call.address] = NoPeek]
    ELSE peeked

NextReported(call) ==
    IF call.op = "initialize" THEN [a \in AllAddresses |-> Following({})]
    ELSE IF IsNewAddress(call) THEN [reported EXCEPT ![call.address] = Following({})]
    ELSE IF ~call.result.ok THEN reported
    ELSE IF call.op = "get_utxos_update" /\ reported[call.address].followed
    THEN [reported EXCEPT ![call.address].utxos = apply_update(@, call.result.val)]
    ELSE IF call.op \in {"update_state", "get_balance_update"}
    THEN [reported EXCEPT ![call.address] = NotFollowed]
    ELSE reported

\* 1: a reconcile of the main address installed the raw set {A, B}; 2: then a
\* commit; 3: then a reconcile installed the raw set {B, C}; 4: then a peek.
NextScenario(call) ==
    IF call.op = "initialize" \/ (IsNewAddress(call) /\ call.address = MainAddress) THEN 0
    ELSE IF ~call.result.ok \/ call.address # MainAddress THEN scenario
    ELSE IF call.op = "apply_utxos"
    THEN LET raw == Range(inflight.raw)
             as_raw == Range(inflight.result.utxos) = raw
         IN IF scenario = 2 /\ as_raw /\ raw = {UtxoB, UtxoC} THEN 3
            ELSE IF as_raw /\ raw = {UtxoA, UtxoB} THEN 1
            ELSE 0
    ELSE IF call.op = "update_state" THEN (IF scenario = 1 THEN 2 ELSE 0)
    ELSE IF call.op \in {"get_utxos_update", "get_balance_update"} THEN 0
    ELSE IF call.op = "peek_utxos_update" /\ scenario = 3 THEN 4
    ELSE scenario

\* The spent lists as they are when the call is made, added to the ones recorded
\* so far, unless a reconcile is outstanding.
NextEverSpent(call) ==
    IF inflight.stage # "none" THEN ever_spent
    ELSE [a \in AllAddresses |->
             ever_spent[a] \cup (IF a \in DOMAIN utxos_state_addresses
                                 THEN Range(utxos_state_addresses[a].spent_state)
                                 ELSE {})]

\* The call returns: the caller has its result and the observer in charge records it.
Returns(call) ==
    /\ last' = IF observer = "last" THEN call ELSE last
    /\ observer' = observer
    /\ peeked' = IF observer = "peeked" THEN NextPeeked(call) ELSE peeked
    /\ reported' = IF observer = "reported" THEN NextReported(call) ELSE reported
    /\ scenario' = IF observer = "scenario" THEN NextScenario(call) ELSE scenario
    /\ ever_spent' = IF observer = "spent" THEN NextEverSpent(call) ELSE ever_spent
    /\ locally' = locally
    /\ waiting' = waiting

Observers == {"none", "last", "peeked", "reported", "scenario", "spent"}

\* BitcoinAgent::new on Regtest.  Every address and every tag of such an agent is
\* on Regtest, where the two builds of get_address do the same: the agent is
\* followed in the build without --cfg locally.
InitAgent ==
    /\ management_canister = [network |-> AgentNetwork, ecdsa_public_key |-> EmptyKey]
    /\ main_address_type \in CallAddressTypes
    /\ min_confirmations \in CallMinConfirmations
    /\ ecdsa_pub_key_addresses = <<>>
    /\ utxos_state_addresses = <<>>
    /\ inflight = NoRequest
    /\ last = Call("new", NoAddress, Ok(Unit))
    /\ peeked = [a \in AllAddresses |-> NoPeek]
    /\ reported = [a \in AllAddresses |-> Following({})]
    /\ scenario = 0
    /\ ever_spent = [a \in AllAddresses |-> {}]
    /\ waiting = NoRequest
    /\ locally = FALSE

Initialized == management_canister.ecdsa_public_key # EmptyKey

\* BitcoinAgent::initialize: the key is set, then get_main_address panics when
\* the key gives no address, and the two maps are replaced when it gives one.
Initialize(ecdsa_public_key) ==
    LET canister == [management_canister EXCEPT !.ecdsa_public_key = ecdsa_public_key]
        main_address == get_main_address(canister, main_address_type)
    IN /\ management_canister' = canister
       /\ IF main_address = PanickedAddress
          THEN /\ UNCHANGED <<ecdsa_pub_key_addresses, utxos_state_addresses>>
               /\ Returns(Call("initialize", NoAddress, Err("panic")))
          ELSE /\ ecdsa_pub_key_addresses' = (main_address :> canister.ecdsa_public_key)
               /\ utxos_state_addresses' = (main_address :> UtxosState_new(min_confirmations))
               /\ Returns(Call("initialize", NoAddress, Ok(Unit)))
       /\ UNCHANGED <<main_address_type, min_confirmations, inflight>>

\* BitcoinAgent::add_address_with_parameters (on an agent that was not
\* initialized the derivation panics).
AddAddress(derivation_path, address_type, min_conf) ==
    /\ LET added == add_address_with_parameters(agent, derivation_path, address_type, min_conf)
       IN /\ ecdsa_pub_key_addresses' = added.ecdsa_pub_key_addresses
          /\ utxos_state_addresses' = added.utxos_state_addresses
          /\ Returns(Call("add_address",
                          IF added.result.ok THEN added.result.val ELSE NoAddress,
                          added.result))
    /\ UNCHANGED <<management_canister, main_address_type, min_confirmations, inflight>>

\* BitcoinAgent::remove_address
RemoveAddress(address) ==
    /\ LET removed == remove_address(agent, address)
       IN /\ ecdsa_pub_key_addresses' = removed.ecdsa_pub_key_addresses
          /\ utxos_state_addresses' = removed.utxos_state_addresses
          /\ Returns(Call("remove_address", address, removed.result))
    /\ UNCHANGED <<management_canister, main_address_type, min_confirmations, inflight>>

\* BitcoinAgent::add_address: the main address type and the depth of the agent;
\* the match arm for MinConfirmationsTooHigh panics.
UnreachableArm == "panic: unreachable match arm"
add_address(bitcoin_agent, derivation_path) ==
    LET added == add_address_with_parameters(bitcoin_agent, derivation_path,
                                             bitcoin_agent.main_address_type,
                                             bitcoin_agent.min_confirmations)
    IN IF added.result.ok \/ added.result.err \in {"DerivationPathTooLong", "panic"}
       THEN added
       ELSE [added EXCEPT !.result = Err(UnreachableArm)]

AddAddressWithDefaults(derivation_path) ==
    /\ LET added == add_address(agent, derivation_path)
       IN /\ ecdsa_pub_key_addresses' = added.ecdsa_pub_key_addresses
          /\ utxos_state_addresses' = added.utxos_state_addresses
          /\ Returns(Call("add_address_with_defaults",
                          IF added.result.ok THEN added.result.val ELSE NoAddress,
                          added.result))
    /\ UNCHANGED <<management_canister, main_address_type, min_confirmations, inflight>>

\* BitcoinAgent::list_addresses
ListAddresses ==
    /\ Returns(Call("list_addresses", NoAddress, Ok(list_addresses(agent))))
    /\ UNCHANGED <<agent_vars, inflight>>

\* BitcoinAgent::get_state
GetState ==
    /\ Returns(Call("get_state", NoAddress, Ok(get_state(agent))))
    /\ UNCHANGED <<agent_vars, inflight>>

\* A canister upgrade: get_state before it, BitcoinAgent::from_state after it.
\* What the caller held of a reconcile does not survive it.
Upgrade ==
    /\ LET restored == from_state(get_state(agent))
       IN /\ management_canister' = restored.management_canister
          /\ main_address_type' = restored.main_address_type
          /\ ecdsa_pub_key_addresses' = restored.ecdsa_pub_key_addresses
          /\ min_confirmations' = restored.min_confirmations
          /\ utxos_state_addresses' = restored.utxos_state_addresses
    /\ inflight' = NoRequest
    /\ Returns(Call("from_state", NoAddress, Ok(Unit)))

\* BitcoinAgent::get_utxos_args: the request, with a copy of the address's state.
GetUtxosArgs(address, min_conf) ==
    /\ inflight = NoRequest
    /\ inflight' = [stage |-> "args",
                    args |-> get_utxos_args(utxos_state_addresses, management_canister.network,
                                            address, min_conf)]
    /\ Returns(Call("get_utxos_args", address, Ok(Unit)))
    /\ UNCHANGED agent_vars

\* A rejection of a call to the management canister: its code and its message.
Rejections == {<<"SysTransient", "busy">>, <<"CanisterReject", "not enough cycles">>}

\* get_utxos_from_args up to its first await: get_utxos refuses a depth over the
\* bound without calling; otherwise bitcoin_get_utxos is called and the caller
\* waits, the agent free for other calls meanwhile.  What the observer records
\* of the second case is the call that was sent.
GetUtxosFromArgsCall ==
    /\ inflight.stage = "args"
    /\ IF inflight.args.min_confirmations > MIN_CONFIRMATIONS_UPPER_BOUND
       THEN /\ inflight' = NoRequest
            /\ Returns(Call("get_utxos_from_args", inflight.args.address,
                            Err(<<"MinConfirmationsTooHigh">>)))
       ELSE /\ inflight' = [inflight EXCEPT !.stage = "sent"]
            /\ Returns(Call("bitcoin_get_utxos", inflight.args.address, Ok(Unit)))
    /\ UNCHANGED agent_vars

\* get_utxos_from_args from the answer on: the oracle answers and the response
\* is reconciled with the state copied into the request.
GetUtxosFromArgs(oracle) ==
    /\ inflight.stage = "sent"
    /\ \E response \in oracle[inflight.args.address] :
         \E utxos_result \in get_utxos_from_args_common(inflight.args.address, response,
                                                        inflight.args.utxos_state) :
            inflight' = [stage |-> "result", result |-> utxos_result.val,
                         raw |-> response.utxos,
                         spent_state |-> inflight.args.utxos_state.spent_state,
                         generated_state |-> inflight.args.utxos_state.generated_state,
                         min_confirmations |-> inflight.args.utxos_state.min_confirmations]
    /\ Returns(Call("get_utxos_from_args", inflight.args.address, Ok(Unit)))
    /\ UNCHANGED agent_vars

\* get_utxos_from_args when the oracle rejects the call: the error, made of the
\* rejection code and the message, is all the caller gets.
GetUtxosFromArgsRejected ==
    /\ inflight.stage = "sent"
    /\ inflight' = NoRequest
    /\ \E rejection \in Rejections :
          Returns(Call("get_utxos_from_args", inflight.args.address,
                       Err(<<"ManagementCanisterReject", rejection[1], rejection[2]>>)))
    /\ UNCHANGED agent_vars

\* The caller turns from the reconcile it was on to the one it had set aside, or
\* sets the one it was on aside; no call is made.
Switch ==
    /\ waiting # inflight
    /\ inflight' = waiting
    /\ waiting' = inflight
    /\ UNCHANGED <<agent_vars, last, observer, peeked, reported, scenario, ever_spent, locally>>

\* BitcoinAgent::apply_utxos
ApplyUtxos ==
    /\ inflight.stage = "result"
    /\ LET applied == apply_utxos(utxos_state_addresses, inflight.result)
       IN /\ utxos_state_addresses' = applied.state
          /\ Returns(Call("apply_utxos", inflight.result.address, applied.result))
    /\ inflight' = NoRequest
    /\ UNCHANGED <<management_canister, main_address_type, ecdsa_pub_key_addresses,
                   min_confirmations>>

\* Faulty variant: the peek commits.
PeekUtxosUpdateCommitting(address) ==
    /\ Returns(Call("peek_utxos_update", address,
                    peek_utxos_update(utxos_state_addresses, address)))
    /\ utxos_state_addresses' = update_state(utxos_state_addresses, address).state
    /\ UNCHANGED <<management_canister, main_address_type, ecdsa_pub_key_addresses,
                   min_confirmations, inflight>>

\* BitcoinAgent::peek_utxos_update
PeekUtxosUpdate(address) ==
    /\ Returns(Call("peek_utxos_update", address,
                    peek_utxos_update(utxos_state_addresses, address)))
    /\ UNCHANGED <<agent_vars, inflight>>

\* BitcoinAgent::peek_balance_update
PeekBalanceUpdate(address) ==
    /\ Returns(Call("peek_balance_update", address,
                    peek_balance_update(utxos_state_addresses, address)))
    /\ UNCHANGED <<agent_vars, inflight>>

\* BitcoinAgent::update_state
UpdateState(address) ==
    /\ LET updated == update_state(utxos_state_addresses, address)
       IN /\ utxos_state_addresses' = updated.state
          /\ Returns(Call("update_state", address, updated.result))
    /\ UNCHANGED <<management_canister, main_address_type, ecdsa_pub_key_addresses,
                   min_confirmations, inflight>>

\* BitcoinAgent::get_utxos_update
GetUtxosUpdate(address) ==
    /\ LET got == get_utxos_update(utxos_state_addresses, address)
       IN /\ utxos_state_addresses' = got.state
          /\ Returns(Call("get_utxos_update", address, got.result))
    /\ UNCHANGED <<management_canister, main_address_type, ecdsa_pub_key_addresses,
                   min_confirmations, inflight>>

\* BitcoinAgent::get_balance_update
GetBalanceUpdate(address) ==
    /\ LET got == get_balance_update(utxos_state_addresses, address)
       IN /\ utxos_state_addresses' = got.state
          /\ Returns(Call("get_balance_update", address, got.result))
    /\ UNCHANGED <<management_canister, main_address_type, ecdsa_pub_key_addresses,
                   min_confirmations, inflight>>

\* The results of multi_transfer a caller hands back: at most one input, among
\* inputs, and at most one generated output, among outputs, each listed under
\* the address it pays to.
OneEntryMaps(utxos) ==
    {<<>>} \cup UNION {{(get_address_using_primitives(a) :> <<u>>) :
                            u \in utxos \cap UtxosOf(a, OutPoints, Heights)} :
                       a \in AllAddresses}
MultiTransferResults(inputs, outputs) ==
    {[transaction_info |-> [utxos_addresses |-> spent],
      generated_utxos_addresses |-> generated] :
        spent \in OneEntryMaps(inputs), generated \in OneEntryMaps(outputs)}

\* The greatest length of the spent and generated lists of an address that the
\* model follows.
MaxTransferred == 2
WithinMaxTransferred(usa) ==
    \A a \in DOMAIN usa :
        /\ Len(usa[a].spent_state) <= MaxTransferred
        /\ Len(usa[a].generated_state) <= MaxTransferred

\* BitcoinAgent::apply_multi_transfer_result
ApplyMultiTransferResult(multi_transfer_result) ==
    /\ LET applied == apply_multi_transfer_result(utxos_state_addresses, multi_transfer_result)
       IN /\ WithinMaxTransferred(applied.state)
          /\ utxos_state_addresses' = applied.state
          /\ Returns(Call("apply_multi_transfer_result", NoAddress, applied.result))
    /\ UNCHANGED <<management_canister, main_address_type, ecdsa_pub_key_addresses,
                   min_confirmations, inflight>>

\* Every call of the agent that changes it or reads its maps.  The chain holds
\* the outputs A, B and C of the main address; transfers spend A.
EngineHeights == {u32(10)}
Next ==
    \/ Initialize(MasterKey)
    \/ \E p \in DerivationPaths, t \in CallAddressTypes : AddAddress(p, t, 0)
    \/ \E p \in DerivationPaths : AddAddressWithDefaults(p)
    \/ \E a \in AllAddresses : RemoveAddress(a)
    \/ ListAddresses
    \/ GetState
    \/ Upgrade
    \/ \E a \in AllAddresses : GetUtxosArgs(a, 0)
    \/ GetUtxosFromArgsCall
    \/ GetUtxosFromArgs(ChainOracle(MainOutPoints, EngineHeights))
    \/ GetUtxosFromArgsRejected
    \/ ApplyUtxos
    \/ \E a \in AllAddresses : PeekUtxosUpdate(a)
    \/ \E a \in AllAddresses : PeekBalanceUpdate(a)
    \/ \E a \in AllAddresses : UpdateState(a)
    \/ \E a \in AllAddresses : GetUtxosUpdate(a)
    \/ \E a \in AllAddresses : GetBalanceUpdate(a)
    \/ \E r \in MultiTransferResults({UtxoA}, {}) : ApplyMultiTransferResult(r)

\* The callers that track addresses and send nothing.  The chain holds the
\* outputs A and B of the main address.
TrackedOutPoints == {"A", "B"}
NextTracking ==
    \/ Initialize(MasterKey)
    \/ \E p \in DerivationPaths, t \in CallAddressTypes, d \in CallMinConfirmations :
          AddAddress(p, t, d)
    \/ \E a \in AllAddresses, d \in CallMinConfirmations : GetUtxosArgs(a, d)
    \/ GetUtxosFromArgsCall
    \/ GetUtxosFromArgs(ChainOracle(TrackedOutPoints, EngineHeights))
    \/ GetUtxosFromArgsRejected
    \/ ApplyUtxos
    \/ \E a \in AllAddresses : PeekUtxosUpdate(a)
    \/ \E a \in AllAddresses : PeekBalanceUpdate(a)
    \/ \E a \in AllAddresses : UpdateState(a)
    \/ \E a \in AllAddresses : GetUtxosUpdate(a)
    \/ \E a \in AllAddresses : GetBalanceUpdate(a)

\* The callers that reconcile the main address and send transfers, up to the
\* result they are handed.  The oracle
\* may report anything of the outputs A (at height 10 or 20) and B; transfers
\* spend A and generate A (at height 20) and B.
ReconciledUtxos == {MkUtxo("A", u32(10)), MkUtxo("A", u32(20)), MkUtxo("B", u32(10))}
SpentUtxos == {MkUtxo("A", u32(10))}
GeneratedUtxos == {MkUtxo("A", u32(20)), MkUtxo("B", u32(10))}
ReconcileOracle ==
    [a \in AllAddresses |->
        Responses(SeqsUpTo(ReconciledUtxos \cap UtxosOf(a, OutPoints, Heights), MaxSnapshot))]
NextReconcile ==
    \/ Initialize(MasterKey)
    \/ \E a \in AllAddresses : GetUtxosArgs(a, 0)
    \/ GetUtxosFromArgsCall
    \/ GetUtxosFromArgs(ReconcileOracle)
    \/ GetUtxosFromArgsRejected
    \/ \E r \in MultiTransferResults(SpentUtxos, GeneratedUtxos) : ApplyMultiTransferResult(r)

\* The callers that manage addresses.  Paths have no segment, one, the greatest
\* number allowed or one more; confirmation depths are none, the upper bound or
\* one more.
TooLongPath == Append(LongestPath, "1")
RegistryPaths == DerivationPaths \cup {LongestPath, TooLongPath}
RegistryMinConfirmations ==
    {0, MIN_CONFIRMATIONS_UPPER_BOUND, MIN_CONFIRMATIONS_UPPER_BOUND + 1}
RegistryAddresses ==
    {derive_ecdsa_public_key_and_address_from_extended_path(p, t, AgentNetwork, MasterKey)[2] :
        p \in RegistryPaths, t \in CallAddressTypes}
NextRegistry ==
    \/ Initialize(MasterKey)
    \/ \E p \in RegistryPaths, t \in CallAddressTypes, d \in RegistryMinConfirmations :
          AddAddress(p, t, d)
    \/ \E a \in RegistryAddresses : RemoveAddress(a)
    \/ ListAddresses

\* The callers over the life of an agent: they manage addresses, reconcile them,
\* commit, send transfers and upgrade.  The chain holds the output A of the main
\* address and the output D of the derived one; transfers spend A or D and
\* generate D.
UtxoD == MkUtxo("D", u32(10))
LifecycleMinConfirmations == {MIN_CONFIRMATIONS_UPPER_BOUND}
LifecycleOutPoints == {"A", "D"}
NextLifecycle ==
    \/ Initialize(MasterKey)
    \/ \E p \in DerivationPaths, t \in CallAddressTypes, d \in LifecycleMinConfirmations :
          AddAddress(p, t, d)
    \/ \E a \in AllAddresses : RemoveAddress(a)
    \/ ListAddresses
    \/ \E a \in AllAddresses : GetUtxosArgs(a, 0)
    \/ GetUtxosFromArgsCall
    \/ GetUtxosFromArgs(ChainOracle(LifecycleOutPoints, EngineHeights))
    \/ ApplyUtxos
    \/ \E a \in AllAddresses : UpdateState(a)
    \/ \E r \in MultiTransferResults({UtxoA}, {UtxoD}) : ApplyMultiTransferResult(r)
    \/ GetState
    \/ Upgrade

\* The callers that upgrade agents of every network and main address type and
\* manage addresses of every script type.
UpgradeAddresses ==
    {derive_ecdsa_public_key_and_address_from_extended_path(p, t, n, MasterKey)[2] :
        p \in DerivationPaths, t \in AddressTypes, n \in Networks}
\* The paths of the addresses they add.
UpgradePaths == {<<"1">>}
NextUpgrade ==
    \/ Initialize(MasterKey)
    \/ \E p \in UpgradePaths, t \in AddressTypes, d \in LifecycleMinConfirmations :
          AddAddress(p, t, d)
    \/ \E a \in UpgradeAddresses : RemoveAddress(a)
    \/ GetState
    \/ Upgrade

Init == InitAgent /\ observer = "scenario"
InitReconcile == InitAgent /\ observer = "none"
InitLast == InitAgent /\ observer = "last"
InitPeeked == InitAgent /\ observer = "peeked"
InitReported == InitAgent /\ observer = "reported"
InitSpent == InitAgent /\ observer = "spent"
\* BitcoinAgent::new on any network, with any main address type.
InitUpgrade ==
    /\ \E network \in Networks :
          management_canister = [network |-> network, ecdsa_public_key |-> EmptyKey]
    /\ main_address_type \in AddressTypes
    /\ min_confirmations = 0
    /\ ecdsa_pub_key_addresses = <<>>
    /\ utxos_state_addresses = <<>>
    /\ inflight = NoRequest
    /\ last = Call("new", NoAddress, Ok(Unit))
    /\ peeked = [a \in AllAddresses |-> NoPeek]
    /\ reported = [a \in AllAddresses |-> Following({})]
    /\ scenario = 0
    /\ ever_spent = [a \in AllAddresses |-> {}]
    /\ waiting = NoRequest
    /\ locally \in BOOLEAN
    /\ observer = "last"

Spec == Init /\ [][Next]_vars
SpecLast == InitLast /\ [][NextTracking]_vars
SpecPeeked == InitPeeked /\ [][NextTracking]_vars
SpecReported == InitReported /\ [][NextTracking]_vars
SpecReconcile == InitReconcile /\ [][NextReconcile]_vars
SpecRegistry == InitLast /\ [][NextRegistry]_vars
SpecLifecycle == InitLast /\ [][NextLifecycle]_vars
SpecUpgrade == InitUpgrade /\ [][NextUpgrade]_vars

(***************************************************************************)
(* Properties                                                              *)
(***************************************************************************)
\* C1: for a tracked address peek_utxos_update returns as added the UTXOs of
\* unseen that are not in seen and as removed the UTXOs of seen that are not in
\* unseen; and once a reconcile has installed {A, B}, update_state has run and a
\* reconcile has installed {B, C}, the peek returns added = {C}, removed = {A}.
C1_PeekDiff ==
    /\ \A a \in DOMAIN utxos_state_addresses :
          LET seen == Range(utxos_state_addresses[a].seen_state)
              unseen == Range(utxos_state_addresses[a].unseen_state)
          IN peek_utxos_update(utxos_state_addresses, a) =
                Ok([added_utxos |-> {u \in unseen : u \notin seen},
                    removed_utxos |-> {u \in seen : u \notin unseen}])
    /\ scenario >= 3 =>
          peek_utxos_update(utxos_state_addresses, MainAddress) =
             Ok([added_utxos |-> {UtxoC}, removed_utxos |-> {UtxoA}])
C1_Witness ==
    /\ scenario = 4
    /\ peek_utxos_update(utxos_state_addresses, MainAddress) =
          Ok([added_utxos |-> {UtxoC}, removed_utxos |-> {UtxoA}])

Seen(a) == Range(utxos_state_addresses[a].seen_state)
Unseen(a) == Range(utxos_state_addresses[a].unseen_state)

\* C2: over the reconciles and get_utxos_update calls made on an address since
\* it was added, seen is the set obtained by applying in order every UtxosUpdate
\* that get_utxos_update returned; and get_utxos_update never reports as added a
\* UTXO that set already holds, nor as removed one it does not hold.
C2_ExactlyOnce ==
    \A a \in DOMAIN utxos_state_addresses \cap AllAddresses :
        reported[a].followed =>
            LET utxos_update == get_utxos_update(utxos_state_addresses, a).result.val
            IN /\ reported[a].utxos = Seen(a)
               /\ utxos_update.added_utxos \cap reported[a].utxos = {}
               /\ utxos_update.removed_utxos \subseteq reported[a].utxos
C2_Witness ==
    /\ MainAddress \in DOMAIN utxos_state_addresses
    /\ reported[MainAddress] = Following({UtxoB})
    /\ get_utxos_update(utxos_state_addresses, MainAddress).result =
          Ok([added_utxos |-> {UtxoA}, removed_utxos |-> {UtxoB}])

\* C3: a call of get_utxos_update returns what peek_utxos_update returns on the
\* state before the call and leaves the state update_state leaves; on an address
\* with nothing seen it returns the whole reconciled set as added, and a second
\* call right after a first returns the empty update.
C3_GetIsPeekThenCommit ==
    [][last'.op = "get_utxos_update" =>
        LET a == last'.address
        IN /\ last'.result = peek_utxos_update(utxos_state_addresses, a)
           /\ utxos_state_addresses' = update_state(utxos_state_addresses, a).state
           /\ UNCHANGED <<management_canister, main_address_type, ecdsa_pub_key_addresses,
                          min_confirmations>>
           /\ (last'.result.ok /\ Seen(a) = {}) =>
                 last'.result.val = [added_utxos |-> Unseen(a), removed_utxos |-> {}]
           /\ (last'.result.ok /\ last.op = "get_utxos_update" /\ last.address = a) =>
                 last'.result.val = UtxosUpdate_new]_vars
C3_Witness ==
    /\ last.op = "get_utxos_update" /\ last.address = MainAddress
    /\ last.result = Ok([added_utxos |-> {UtxoA, UtxoB}, removed_utxos |-> {}])
    /\ Seen(MainAddress) = {UtxoA, UtxoB}

\* C4: peek_utxos_update and peek_balance_update leave every field of the agent
\* unchanged and return a function of the address's state alone, so that a peek
\* right after a peek of the same address returns the same result.
C4_PeekReadOnly ==
    [][last'.op \in {"peek_utxos_update", "peek_balance_update"} =>
        /\ UNCHANGED agent_vars
        /\ last'.op = "peek_utxos_update" =>
              last'.result = peek_utxos_update(utxos_state_addresses', last'.address)
        /\ last'.op = "peek_balance_update" =>
              last'.result = peek_balance_update(utxos_state_addresses', last'.address)
        /\ (last.op = last'.op /\ last.address = last'.address) =>
              last'.result = last.result]_vars
C4_Witness ==
    /\ last.op = "peek_balance_update" /\ last.address = MainAddress
    /\ last.result = Ok([added_balance |-> ValueOf("A"), removed_balance |-> ValueOf("B")])

\* C5: update_state copies unseen into seen, after which peek_utxos_update
\* reports nothing added and nothing removed; an update_state right after an
\* update_state of the same address changes nothing.
C5_CommitIdempotent ==
    [][(last'.op = "update_state" /\ last'.result.ok) =>
        LET a == last'.address
        IN /\ utxos_state_addresses' =
                [utxos_state_addresses EXCEPT ![a].seen_state = utxos_state_addresses[a].unseen_state]
           /\ peek_utxos_update(utxos_state_addresses', a) = Ok(UtxosUpdate_new)
           /\ (last.op = "update_state" /\ last.address = a) => UNCHANGED agent_vars]_vars
C5_Witness ==
    /\ last.op = "update_state" /\ last.address = MainAddress /\ last.result.ok
    /\ Seen(MainAddress) = {UtxoA}
    /\ utxos_state_addresses[MainAddress].seen_state = utxos_state_addresses[MainAddress].unseen_state

\* C6 as stated: when no reconcile of the address comes between a
\* peek_utxos_update and the update_state that follows it, seen after the
\* update_state is what the peek announced, (seen + added) - removed; when one
\* comes between, seen differs from what the peek announced.
C6_InterleavedCommitDiffers ==
    \A a \in DOMAIN utxos_state_addresses \cap AllAddresses :
        peeked[a].stage = "committed" =>
            /\ ~peeked[a].stale => Seen(a) = peeked[a].expected
            /\ peeked[a].stale => Seen(a) # peeked[a].expected

\* C6: when no reconcile of the address comes between a peek_utxos_update and
\* the update_state that follows it, seen after the update_state is what the
\* peek announced, (seen + added) - removed; when reconciles come between, seen
\* is the unseen set the last of them installed, and it differs from what the
\* peek announced exactly when that set is not the unseen set the peek was
\* taken of.
C6_PeekThenCommit ==
    \A a \in DOMAIN utxos_state_addresses \cap AllAddresses :
        peeked[a].stage = "committed" =>
            /\ ~peeked[a].stale => Seen(a) = peeked[a].expected
            /\ Seen(a) = Unseen(a)
            /\ peeked[a].stale =>
                  (Seen(a) # peeked[a].expected <=> Unseen(a) # peeked[a].unseen)
C6_Witness ==
    /\ MainAddress \in DOMAIN utxos_state_addresses
    /\ peeked[MainAddress].stage = "committed"
    /\ peeked[MainAddress].stale
    /\ peeked[MainAddress].expected = {UtxoA}
    /\ Seen(MainAddress) = {UtxoB}

\* The reconcile whose result the caller holds: the list the oracle returned,
\* the list get_utxos_from_args returned, and the spent, generated and
\* min_confirmations of the UtxosState it was computed with.
Reconciled == inflight.stage = "result"
ResultUtxos == inflight.result.utxos
OutPointsIn(utxos) == {utxos[i].outpoint : i \in DOMAIN utxos}

\* C7: with min_confirmations 0 the reconciled list holds no UTXO whose outpoint
\* is in the spent list, be it of the oracle's list or of the generated list;
\* and apply_utxos stores that list as unseen.
C7_SpentExcluded ==
    (Reconciled /\ inflight.min_confirmations = 0) =>
        /\ OutPointsIn(ResultUtxos) \cap Range(inflight.spent_state) = {}
        /\ inflight.result.address \in DOMAIN utxos_state_addresses =>
              apply_utxos(utxos_state_addresses, inflight.result)
                  .state[inflight.result.address].unseen_state = ResultUtxos
C7_Witness ==
    /\ Reconciled /\ inflight.min_confirmations = 0
    /\ inflight.result.address \in DOMAIN utxos_state_addresses
    /\ inflight.spent_state = <<"A">>
    /\ inflight.raw = <<MkUtxo("A", u32(10)), MkUtxo("B", u32(10))>>
    /\ inflight.generated_state = <<MkUtxo("A", u32(20))>>
    /\ ResultUtxos = <<MkUtxo("B", u32(10))>>

\* C8: with min_confirmations 0 the reconciled list holds at most one record per
\* outpoint, and for every outpoint of the oracle's list or of the generated
\* list that is not spent, the record of the greatest height among them.
C8_DedupByHeight ==
    (Reconciled /\ inflight.min_confirmations = 0) =>
        LET candidates == Range(inflight.raw) \cup Range(inflight.generated_state)
        IN /\ \A i, j \in DOMAIN ResultUtxos :
                 ResultUtxos[i].outpoint = ResultUtxos[j].outpoint => i = j
           /\ \A u \in candidates :
                 u.outpoint \notin Range(inflight.spent_state) =>
                    \E v \in Range(ResultUtxos) \cap candidates :
                        /\ v.outpoint = u.outpoint
                        /\ integer_le(u.height, v.height)
C8_Witness ==
    /\ Reconciled /\ inflight.min_confirmations = 0
    /\ inflight.raw = <<MkUtxo("A", u32(20)), MkUtxo("A", u32(10))>>
    /\ ResultUtxos = <<MkUtxo("A", u32(20))>>

\* C9: with min_confirmations 0 every outpoint of the generated list that is not
\* in the spent list is in the reconciled list, in the oracle's list or not.
C9_GeneratedUnion ==
    (Reconciled /\ inflight.min_confirmations = 0) =>
        \A g \in Range(inflight.generated_state) :
            g.outpoint \notin Range(inflight.spent_state) =>
                g.outpoint \in OutPointsIn(ResultUtxos)
C9_Witness ==
    /\ Reconciled /\ inflight.min_confirmations = 0
    /\ inflight.generated_state = <<MkUtxo("B", u32(10))>>
    /\ inflight.raw = <<>>
    /\ ResultUtxos = <<MkUtxo("B", u32(10))>>

\* C10: with min_confirmations greater than 0 the reconciled list is the
\* oracle's list as it came: nothing generated added, nothing spent removed,
\* the order and the duplicates kept.
C10_OracleUnmodified ==
    (Reconciled /\ inflight.min_confirmations > 0) => ResultUtxos = inflight.raw
C10_Witness ==
    /\ Reconciled /\ inflight.min_confirmations > 0
    /\ inflight.spent_state = <<"A">>
    /\ inflight.generated_state = <<MkUtxo("B", u32(10))>>
    /\ inflight.raw = <<MkUtxo("A", u32(20)), MkUtxo("A", u32(10))>>
    /\ ResultUtxos = inflight.raw

\* C11: on an address that is not registered, peek_utxos_update,
\* peek_balance_update, update_state, get_utxos_update, get_balance_update and
\* apply_utxos fail with AddressNotTracked and leave the agent as it is.
NotTracked == Err("AddressNotTracked")
C11_NotTrackedEverywhere ==
    \A a \in AllAddresses \ DOMAIN ecdsa_pub_key_addresses :
        /\ peek_utxos_update(utxos_state_addresses, a) = NotTracked
        /\ peek_balance_update(utxos_state_addresses, a) = NotTracked
        /\ update_state(utxos_state_addresses, a) =
              [result |-> NotTracked, state |-> utxos_state_addresses]
        /\ get_utxos_update(utxos_state_addresses, a) =
              [result |-> NotTracked, state |-> utxos_state_addresses]
        /\ get_balance_update(utxos_state_addresses, a) =
              [result |-> NotTracked, state |-> utxos_state_addresses]
        /\ (Reconciled /\ inflight.result.address = a) =>
              apply_utxos(utxos_state_addresses, inflight.result) =
                 [result |-> NotTracked, state |-> utxos_state_addresses]

\* C12: add_address_with_parameters returns MinConfirmationsTooHigh when
\* min_confirmations exceeds MIN_CONFIRMATIONS_UPPER_BOUND, and, for a depth it
\* accepts, DerivationPathTooLong when the path has more than 255 segments; a
\* path of exactly 255 segments is accepted; in both error cases the registry
\* and the UTXO-state map are left as they were.
LongestAddress ==
    derive_ecdsa_public_key_and_address_from_extended_path(LongestPath, "P2pkh", AgentNetwork,
                                                           MasterKey)[2]
C12_AddRejects ==
    Initialized =>
        \A p \in RegistryPaths, t \in CallAddressTypes, d \in RegistryMinConfirmations :
            LET added == add_address_with_parameters(agent, p, t, d)
                untouched ==
                    /\ added.ecdsa_pub_key_addresses = ecdsa_pub_key_addresses
                    /\ added.utxos_state_addresses = utxos_state_addresses
            IN /\ d > MIN_CONFIRMATIONS_UPPER_BOUND =>
                     added.result = Err("MinConfirmationsTooHigh") /\ untouched
               /\ (d <= MIN_CONFIRMATIONS_UPPER_BOUND /\ Len(p) > 255) =>
                     added.result = Err("DerivationPathTooLong") /\ untouched
               /\ (d <= MIN_CONFIRMATIONS_UPPER_BOUND /\ Len(p) = 255) =>
                     added.result = Ok(LongestAddress)
C12_Witness ==
    /\ LongestAddress \in DOMAIN ecdsa_pub_key_addresses
    /\ last.op = "add_address"
    /\ ~last.result.ok
    /\ last.result.err = "DerivationPathTooLong"

\* The agent once a registry operation has left its two maps.
agent_after(bitcoin_agent, outcome) ==
    [bitcoin_agent EXCEPT !.ecdsa_pub_key_addresses = outcome.ecdsa_pub_key_addresses,
                          !.utxos_state_addresses = outcome.utxos_state_addresses]
DerivedAddress ==
    derive_ecdsa_public_key_and_address_from_extended_path(<<"1">>, "P2pkh", AgentNetwork,
                                                           MasterKey)[2]

\* C13: adding an address twice with the same derivation path, address type and
\* min_confirmations returns the same address both times and the second add
\* changes nothing: the registry and the UTXO-state map hold one entry for the
\* address and the UtxosState of an address that is already managed (its seen,
\* unseen, spent and generated layers, its min_confirmations) is not reset.
C13_AddIdempotent ==
    Initialized =>
        \A p \in DerivationPaths, t \in CallAddressTypes, d \in LifecycleMinConfirmations :
            LET first == add_address_with_parameters(agent, p, t, d)
                second == add_address_with_parameters(agent_after(agent, first), p, t, d)
            IN /\ first.result.ok
               /\ second.result = first.result
               /\ second.ecdsa_pub_key_addresses = first.ecdsa_pub_key_addresses
               /\ second.utxos_state_addresses = first.utxos_state_addresses
               /\ first.result.val \in DOMAIN ecdsa_pub_key_addresses =>
                     /\ first.ecdsa_pub_key_addresses = ecdsa_pub_key_addresses
                     /\ first.utxos_state_addresses = utxos_state_addresses
C13_Witness ==
    /\ last.op = "add_address"
    /\ last.address = DerivedAddress
    /\ DerivedAddress \in DOMAIN utxos_state_addresses
    /\ utxos_state_addresses[DerivedAddress].seen_state # <<>>
    /\ utxos_state_addresses[DerivedAddress].unseen_state # <<>>
    /\ utxos_state_addresses[DerivedAddress].generated_state # <<>>
    /\ utxos_state_addresses[DerivedAddress].min_confirmations = MIN_CONFIRMATIONS_UPPER_BOUND

\* C14: on an initialized agent remove_address(get_main_address()) returns false
\* and leaves the registry and the UTXO-state map as they were.
C14_MainNotRemovable ==
    Initialized =>
        LET removed == remove_address(agent, get_main_address(management_canister,
                                                              main_address_type))
        IN /\ removed.result = Ok(FALSE)
           /\ removed.ecdsa_pub_key_addresses = ecdsa_pub_key_addresses
           /\ removed.utxos_state_addresses = utxos_state_addresses
C14_Witness ==
    /\ last.op = "remove_address"
    /\ last.address = MainAddress
    /\ last.result.val = FALSE
    /\ DOMAIN ecdsa_pub_key_addresses = {MainAddress, DerivedAddress}
    /\ DOMAIN utxos_state_addresses = {MainAddress, DerivedAddress}

\* C16: remove_address returns true exactly when the address is in the registry
\* and is not the main address; when it returns true the address is deleted
\* from the registry and from the UTXO-state map and nothing else changes; when
\* it returns false nothing changes.
C16_RemoveOnlyManagedNotMain ==
    [][(last'.op = "remove_address") =>
        LET address == last'.address
            address_can_be_removed ==
                /\ address \in DOMAIN ecdsa_pub_key_addresses
                /\ address # get_main_address(management_canister, main_address_type)
        IN /\ last'.result.val = address_can_be_removed
           /\ address_can_be_removed =>
                 /\ ecdsa_pub_key_addresses' = Without(ecdsa_pub_key_addresses, address)
                 /\ utxos_state_addresses' = Without(utxos_state_addresses, address)
           /\ ~address_can_be_removed =>
                 UNCHANGED <<ecdsa_pub_key_addresses, utxos_state_addresses>>
           /\ UNCHANGED <<management_canister, main_address_type, min_confirmations>>]_vars
C16_Witness ==
    /\ last.op = "remove_address"
    /\ last.address = DerivedAddress
    /\ last.result.val = TRUE
    /\ DOMAIN ecdsa_pub_key_addresses = {MainAddress}
    /\ DOMAIN utxos_state_addresses = {MainAddress}
    /\ utxos_state_addresses[MainAddress].unseen_state # <<>>

\* C17: list_addresses returns the addresses of the registry and no other, each
\* once, in increasing order; and adding an address that is not managed and then
\* removing it gives the list there was before.
C17_ListAddresses ==
    LET listed == list_addresses(agent)
    IN /\ Range(listed) = DOMAIN ecdsa_pub_key_addresses
       /\ Len(listed) = Cardinality(DOMAIN ecdsa_pub_key_addresses)
       /\ \A i, j \in 1..Len(listed) : i < j => AddressLess(listed[i], listed[j])
       /\ Initialized =>
             \A p \in DerivationPaths, t \in CallAddressTypes, d \in LifecycleMinConfirmations :
                 LET added == add_address_with_parameters(agent, p, t, d)
                     removed == remove_address(agent_after(agent, added), added.result.val)
                 IN added.result.val \notin DOMAIN ecdsa_pub_key_addresses =>
                       /\ removed.result = Ok(TRUE)
                       /\ list_addresses(agent_after(agent, removed)) = listed
C17_Witness ==
    /\ last.op = "list_addresses"
    /\ last.result.val = <<MainAddress>>
    /\ DerivedAddress \in DOMAIN utxos_state_addresses

\* C15 as stated: in every reachable state of an agent, from new on, the main
\* address is a key of the registry and of the UTXO-state map.
C15_MainAlwaysPresent ==
    LET main_address == get_main_address(management_canister, main_address_type)
    IN /\ main_address \in DOMAIN ecdsa_pub_key_addresses
       /\ main_address \in DOMAIN utxos_state_addresses

\* C15: in every reachable state of an initialized agent (after initialize and
\* any sequence of initialize, add, remove, reconcile, commit,
\* apply_multi_transfer_result and snapshot/restore) the main address is a key
\* of the registry and of the UTXO-state map.
C15_MainPresentOnceInitialized ==
    Initialized =>
        LET main_address == get_main_address(management_canister, main_address_type)
        IN /\ main_address \in DOMAIN ecdsa_pub_key_addresses
           /\ main_address \in DOMAIN utxos_state_addresses
C15_Witness ==
    /\ Initialized
    /\ last.op = "from_state"
    /\ MainAddress \in DOMAIN ecdsa_pub_key_addresses
    /\ utxos_state_addresses[MainAddress].seen_state # <<>>
    /\ utxos_state_addresses[MainAddress].spent_state # <<>>
    /\ DerivedAddress \notin DOMAIN ecdsa_pub_key_addresses

\* C18 as stated: an initialize on an agent that is already initialized leaves
\* the registry and the UtxosState of every address unchanged.
C18_SecondInitializeHarmless ==
    [][(last'.op = "initialize" /\ Initialized) =>
        UNCHANGED <<ecdsa_pub_key_addresses, utxos_state_addresses>>]_vars

\* C19 as stated: in every reachable state the agent from_state builds of the
\* state get_state returns has the network, main address type, registry,
\* UTXO-state map, min_confirmations and public key of the agent, and get_state
\* of it is that state again; and get_state leaves the agent as it is: what it
\* returned is the state of the agent after the call.
C19_PersistenceRoundTrip ==
    /\ from_state(get_state(agent)) = agent
    /\ get_state(from_state(get_state(agent))) = get_state(agent)
    /\ last.op = "get_state" => last.result.val = get_state(agent)

\* C20 as stated: for an address a of any script type on any network,
\* get_address(get_address_using_primitives(a)) is a, network included; and two
\* distinct addresses of the registry, or of the UTXO-state map, never have the
\* same (string, network) pair, so that the state get_state returns has as many
\* entries as the maps of the agent.
C20_AddressRoundTrip ==
    /\ \A a \in UpgradeAddresses \cup DOMAIN ecdsa_pub_key_addresses
                                 \cup DOMAIN utxos_state_addresses :
          get_address(get_address_using_primitives(a)) = a
    /\ \A a, b \in DOMAIN ecdsa_pub_key_addresses \cup DOMAIN utxos_state_addresses :
          get_address_using_primitives(a) = get_address_using_primitives(b) => a = b
    /\ Cardinality(DOMAIN get_state(agent).ecdsa_pub_key_addresses) =
          Cardinality(DOMAIN ecdsa_pub_key_addresses)
    /\ Cardinality(DOMAIN get_state(agent).utxos_state_addresses) =
          Cardinality(DOMAIN utxos_state_addresses)

(***************************************************************************)
(* from_state on a BitcoinAgentState that was modified since get_state     *)
(***************************************************************************)
\* A map of a BitcoinAgentState whose keys were all given the tag network.
retagged(addresses_using_primitives_map, network) ==
    [p \in {<<q[1], network>> : q \in DOMAIN addresses_using_primitives_map} |->
        addresses_using_primitives_map[
            CHOOSE q \in DOMAIN addresses_using_primitives_map : q[1] = p[1]]]

\* The BitcoinAgentStates a caller may hand to from_state: the one get_state
\* returned, one whose network field was changed, one whose address tags were.
StoredStates(bitcoin_agent_state) ==
    {[bitcoin_agent_state EXCEPT !.network = n] : n \in Networks}
    \cup {[bitcoin_agent_state EXCEPT
              !.ecdsa_pub_key_addresses = retagged(@, n),
              !.utxos_state_addresses = retagged(@, n)] : n \in Networks}

\* BitcoinAgent::from_state
FromState(bitcoin_agent_state) ==
    /\ LET restored == from_state(bitcoin_agent_state)
       IN /\ management_canister' = restored.management_canister
          /\ main_address_type' = restored.main_address_type
          /\ ecdsa_pub_key_addresses' = restored.ecdsa_pub_key_addresses
          /\ min_confirmations' = restored.min_confirmations
          /\ utxos_state_addresses' = restored.utxos_state_addresses
    /\ inflight' = NoRequest
    /\ Returns(Call("from_state", NoAddress, Ok(Unit)))

\* The callers of a restored agent: addresses of the master key, of two script types.
RestorePaths == {<<>>}
RestoreAddressTypes == {"P2pkh", "P2wpkh"}
NextRestore ==
    \/ Initialize(MasterKey)
    \/ \E p \in RestorePaths, t \in RestoreAddressTypes, d \in LifecycleMinConfirmations :
          AddAddress(p, t, d)
    \/ GetState
    \/ \E s \in StoredStates(get_state(agent)) : FromState(s)
InitRestore ==
    /\ \E network \in Networks :
          management_canister = [network |-> network, ecdsa_public_key |-> EmptyKey]
    /\ main_address_type \in RestoreAddressTypes
    /\ min_confirmations = 0
    /\ ecdsa_pub_key_addresses = <<>>
    /\ utxos_state_addresses = <<>>
    /\ inflight = NoRequest
    /\ last = Call("new", NoAddress, Ok(Unit))
    /\ peeked = [a \in AllAddresses |-> NoPeek]
    /\ reported = [a \in AllAddresses |-> Following({})]
    /\ scenario = 0
    /\ ever_spent = [a \in AllAddresses |-> {}]
    /\ waiting = NoRequest
    /\ locally \in BOOLEAN
    /\ observer = "last"
SpecRestore == InitRestore /\ [][NextRestore]_vars

\* C21 (as stated): after a restore every address of the agent is on the
\* session's network: a durable address whose tag, or whose decoded network,
\* disagrees with it was rejected or repaired.
C21_RestoreCrossChecked ==
    last.op = "from_state" =>
        \A a \in DOMAIN ecdsa_pub_key_addresses \cup DOMAIN utxos_state_addresses :
            a.network = management_canister.network

\* C21 (amended): from_state rejects nothing and reconstructs every durable
\* address on the network of its stored tag (on Regtest in a build configured
\* with locally), whatever network its string decodes to and whatever the
\* network of the state; when every tag of the state is the network of the
\* state (and that network is Regtest in a build configured with locally),
\* every restored address is on the session's network.
C21_RestoreTakesTag ==
    \A s \in StoredStates(get_state(agent)) :
        LET restored == from_state(s)
            tagged(addresses_using_primitives) ==
                {[address_from_str(p[1])
                      EXCEPT !.network = IF locally THEN "Regtest" ELSE p[2]] :
                    p \in addresses_using_primitives}
        IN /\ DOMAIN restored.ecdsa_pub_key_addresses = tagged(DOMAIN s.ecdsa_pub_key_addresses)
           /\ DOMAIN restored.utxos_state_addresses = tagged(DOMAIN s.utxos_state_addresses)
           /\ restored.management_canister.network = s.network
           /\ (/\ \A p \in DOMAIN s.ecdsa_pub_key_addresses
                             \cup DOMAIN s.utxos_state_addresses : p[2] = s.network
               /\ locally => s.network = "Regtest")
              => \A a \in DOMAIN restored.ecdsa_pub_key_addresses
                          \cup DOMAIN restored.utxos_state_addresses :
                     a.network = restored.management_canister.network
C21_Witness ==
    /\ last.op = "from_state"
    /\ \E a \in DOMAIN ecdsa_pub_key_addresses :
          /\ a.network # management_canister.network
          /\ address_from_str(address_to_string(a)).network # a.network
          /\ address_from_str(address_to_string(a)).network # management_canister.network

(***************************************************************************)
(* utxo_management.rs, canister_mock.rs: the confirmation predicate and    *)
(* the management canister mock                                            *)
(***************************************************************************)
\* u32 addition and subtraction: the result reduced to 32 bits, and whether
\* the exact result leaves u32.
wrapping_add(x, y) ==
    LET sum == integer_sum(x, y) IN <<sum[1] % HalfModulus, sum[2]>>
add_overflows(x, y) == integer_sum(x, y)[1] >= HalfModulus
wrapping_sub(x, y) ==
    LET borrow == IF x[2] < y[2] THEN 1 ELSE 0
    IN <<(x[1] - y[1] - borrow) % HalfModulus, (x[2] - y[2]) % HalfModulus>>
sub_overflows(x, y) == integer_less(x, y)
\* An overflow panics in a build with overflow checks (the dev and test
\* profiles) and wraps in a build without them (the release profile).
AddOverflow == "panic: attempt to add with overflow"
SubOverflow == "panic: attempt to subtract with overflow"

\* has_utxo_min_confirmations: utxo.height <= tip_height + 1 - min_confirmations
\* in u32.  What a call can produce: the boolean, and where the addition or the
\* subtraction overflows, the panic of the one build and the boolean computed
\* from the wrapped value of the other.
has_utxo_min_confirmations(utxo, tip_height, min_conf) ==
    LET sum == wrapping_add(tip_height, u32(1))
        wrapped == Ok(integer_le(utxo.height, wrapping_sub(sum, min_conf)))
    IN IF add_overflows(tip_height, u32(1)) THEN {Err(AddOverflow), wrapped}
       ELSE IF sub_overflows(sum, min_conf) THEN {Err(SubOverflow), wrapped}
       ELSE {wrapped}

\* ManagementCanisterMock::internal_get_utxos: the filter calls the predicate on
\* every output listed for the address (on none when none is listed).  What a
\* call can produce: the response, or the panic of the predicate.
ListedBy(mock, address) ==
    IF address \in DOMAIN mock.utxos_addresses THEN mock.utxos_addresses[address] ELSE <<>>
internal_get_utxos(mock, address, min_conf) ==
    LET listed == ListedBy(mock, address)
        outcomes(utxo) == has_utxo_min_confirmations(utxo, mock.tip_height, min_conf)
        confirmed(utxo) == Ok(TRUE) \in outcomes(utxo)
    IN {Ok([utxos |-> SelectSeq(listed, confirmed), tip_height |-> mock.tip_height])}
           \cup {panic \in UNION {outcomes(utxo) : utxo \in Range(listed)} : ~panic.ok}

\* get_init_utxos: one output, at the height of the first tip.
get_init_utxos == <<MkUtxo("A", u32(MIN_CONFIRMATIONS_UPPER_BOUND))>>

\* ManagementCanisterMock::new_using_ecdsa_public_key_test, for a key that is
\* not empty.
new_mock == [tip_height |-> u32(MIN_CONFIRMATIONS_UPPER_BOUND),
             utxos_addresses |-> (MainAddress :> get_init_utxos),
             pending_transactions |-> <<>>]

\* A transaction: the outpoints its inputs spend and, per output in order, the
\* address paid and the outpoint created.
Transaction(input, output) == [input |-> input, output |-> output]

\* ManagementCanisterMock::internal_send_transaction
internal_send_transaction(mock, transaction) ==
    [mock EXCEPT !.pending_transactions = Append(@, transaction)]

\* mine_block: the pending transactions one after the other, each consuming
\* its inputs from the lists of every address and then generating its outputs
\* at the tip height; then the pending transactions are cleared and the tip
\* height is incremented.
consume_inputs(utxos_addresses, input) ==
    [a \in DOMAIN utxos_addresses |->
        SelectSeq(utxos_addresses[a],
                  LAMBDA utxo : \A i \in DOMAIN input : utxo.outpoint # input[i])]
RECURSIVE generate_outputs(_, _, _)
generate_outputs(utxos_addresses, outputs, tip_height) ==
    IF outputs = <<>> THEN utxos_addresses
    ELSE LET address == outputs[1][1]
             new_utxo == MkUtxo(outputs[1][2], tip_height)
             entry == IF address \in DOMAIN utxos_addresses
                      THEN utxos_addresses
                      ELSE utxos_addresses @@ (address :> <<>>)
         IN generate_outputs([entry EXCEPT ![address] = Append(@, new_utxo)],
                             Tail(outputs), tip_height)
RECURSIVE mine_transactions(_, _, _)
mine_transactions(utxos_addresses, transactions, tip_height) ==
    IF transactions = <<>> THEN utxos_addresses
    ELSE mine_transactions(
             generate_outputs(consume_inputs(utxos_addresses, transactions[1].input),
                              transactions[1].output, tip_height),
             Tail(transactions), tip_height)
mine_block(mock) ==
    {Ok([tip_height |-> wrapping_add(mock.tip_height, u32(1)),
         utxos_addresses |-> mine_transactions(mock.utxos_addresses,
                                               mock.pending_transactions, mock.tip_height),
         pending_transactions |-> <<>>])}
        \cup IF add_overflows(mock.tip_height, u32(1)) THEN {Err(AddOverflow)} ELSE {}

\* BitcoinAgent::get_utxos_from_args_test: the mock answers and the response is
\* reconciled with the state copied into the request; the caller keeps the
\* request it made.  A panic of the mock ends the caller.
GetUtxosFromArgsTest(mock) ==
    /\ inflight.stage = "args"
    /\ \E response \in internal_get_utxos(mock, inflight.args.address,
                                          u32(inflight.args.min_confirmations)) :
          IF response.ok
          THEN /\ \E utxos_result \in get_utxos_from_args_common(inflight.args.address,
                                                                 response.val,
                                                                 inflight.args.utxos_state) :
                     inflight' =
                         [min_confirmations |-> inflight.args.utxos_state.min_confirmations,
                          spent_state |-> inflight.args.utxos_state.spent_state,
                          generated_state |-> inflight.args.utxos_state.generated_state,
                          result |-> utxos_result.val,
                          stage |-> "result",
                          raw |-> response.val.utxos,
                          args |-> inflight.args,
                          mock |-> mock]
               /\ Returns(Call("get_utxos_from_args_test", inflight.args.address, Ok(Unit)))
          ELSE /\ inflight' = NoRequest
               /\ Returns(Call("get_utxos_from_args_test", inflight.args.address, response))
    /\ UNCHANGED agent_vars

\* The mock as the tests build it; after a block that pays B to the main
\* address and D to the derived one; after a second block that spends A and
\* pays C to the main address; after a block of two transactions, the second
\* spending the output B of the first; and with the tip height set to the
\* greatest u32.
MockDerivedAddress ==
    derive_ecdsa_public_key_and_address_from_extended_path(<<"1">>, "P2pkh", AgentNetwork,
                                                           MasterKey)[2]
MockAfterOneBlock ==
    TheOnly(mine_block(internal_send_transaction(
                new_mock,
                Transaction(<<>>, <<<<MainAddress, "B">>, <<MockDerivedAddress, "D">>>>)))).val
MockAfterTwoBlocks ==
    TheOnly(mine_block(internal_send_transaction(
                MockAfterOneBlock, Transaction(<<"A">>, <<<<MainAddress, "C">>>>)))).val
MockAfterChainedBlock ==
    TheOnly(mine_block(internal_send_transaction(
                internal_send_transaction(new_mock,
                                          Transaction(<<>>, <<<<MainAddress, "B">>>>)),
                Transaction(<<"B">>, <<<<MainAddress, "C">>>>)))).val
MockAtGreatestTip == [new_mock EXCEPT !.tip_height = u32_MAX]
Mocks == {new_mock, MockAfterOneBlock, MockAfterTwoBlocks, MockAfterChainedBlock,
          MockAtGreatestTip}
\* The confirmation depths the callers of the mock ask for: up to the bound
\* and, past it, the depths t + 1 and t + 2 of the first tip t.
MockDepths == 0..3
DeepMockDepths ==
    MockDepths \cup {MIN_CONFIRMATIONS_UPPER_BOUND + 1, MIN_CONFIRMATIONS_UPPER_BOUND + 2}
NextMock ==
    \/ Initialize(MasterKey)
    \/ \E p \in DerivationPaths, t \in CallAddressTypes, d \in CallMinConfirmations :
          AddAddress(p, t, d)
    \/ \E a \in AllAddresses, d \in DeepMockDepths : GetUtxosArgs(a, d)
    \/ \E mock \in Mocks : GetUtxosFromArgsTest(mock)
    \/ ApplyUtxos
SpecMock == InitLast /\ [][NextMock]_vars

\* The UTXOs of a list whose height h satisfies h + d <= t + 1 over the
\* integers, in the order of the list.
ConfirmedAt(utxos, tip_height, depth) ==
    LET deep_enough(utxo) ==
            integer_le(integer_sum(utxo.height, depth), integer_sum(tip_height, u32(1)))
    IN SelectSeq(utxos, deep_enough)

\* C22: for a tip t and a depth d <= t + 1 the mock returns for an address
\* exactly those of its UTXOs whose height h satisfies h <= t + 1 - d, with its
\* tip height; an output at the tip height is returned at depths 0 and 1 and not
\* at depth 2.  It is stated of every mock and depth, and of every answer a
\* request in flight got.
C22_ConfirmationPredicate ==
    /\ \A mock \in Mocks, a \in AllAddresses, d \in DeepMockDepths :
          integer_le(u32(d), integer_sum(mock.tip_height, u32(1))) =>
              internal_get_utxos(mock, a, u32(d)) =
                  {Ok([utxos |-> ConfirmedAt(ListedBy(mock, a), mock.tip_height, u32(d)),
                       tip_height |-> mock.tip_height])}
    /\ \A d \in MockDepths :
          (\E response \in internal_get_utxos(new_mock, MainAddress, u32(d)) :
              response.ok /\ get_init_utxos[1] \in Range(response.val.utxos))
              <=> d <= 1
    /\ (/\ inflight.stage = "result"
        /\ integer_le(u32(inflight.args.min_confirmations),
                      integer_sum(inflight.result.tip_height, u32(1))))
          => inflight.raw = ConfirmedAt(ListedBy(inflight.mock, inflight.args.address),
                                        inflight.result.tip_height,
                                        u32(inflight.args.min_confirmations))

(***************************************************************************)
(* address_management.rs (tests): BIP32 private derivation, and the        *)
(* callers that derive addresses over paths of several segments            *)
(***************************************************************************)
\* The bytes of the path segments the callers use, by name.
IndexNames == {"1", "1000", "0001", "0002", NotReducedIndex, ZeroIndex}
index_bytes(index) ==
    CASE index = "1" -> <<1>>
      [] index = "1000" -> <<1, 0, 0, 0>>
      [] index = "0001" -> <<0, 0, 0, 1>>
      [] index = "0002" -> <<0, 0, 0, 2>>
      [] index = NotReducedIndex -> <<0, 0, 0, 78>>
      [] index = ZeroIndex -> <<0, 0, 0, 90>>
index_of_bytes(bytes) == CHOOSE index \in IndexNames : index_bytes(index) = bytes

\* get_child_number: up to four bytes, the first the most significant, as a u32.
get_child_number(child_bytes) ==
    child_bytes[1] * 2 ^ 24
    + (IF Len(child_bytes) > 1 THEN child_bytes[2] * 2 ^ 16 ELSE 0)
    + (IF Len(child_bytes) > 2 THEN child_bytes[3] * 2 ^ 8 ELSE 0)
    + (IF Len(child_bytes) > 3 THEN child_bytes[4] ELSE 0)

\* The four big-endian bytes of a child number, which private derivation feeds
\* to the HMAC after the parent public key.
ser32(child_number) ==
    <<child_number \div 2 ^ 24, (child_number \div 2 ^ 16) % 256,
      (child_number \div 2 ^ 8) % 256, child_number % 256>>

\* The public key of a private key: k * G.  A child private key is the parent
\* plus the first half of a digest over the parent's public key, and is written
\* as that digest, as its public key is.
MasterPrivateKey == <<"k">>
public_key_of(private_key) ==
    [i \in DOMAIN private_key |->
        IF i = 1 /\ private_key[i] = "k" THEN "K"
        ELSE IF i = 1 /\ private_key[i] = "p" THEN "P"
        ELSE private_key[i]]

\* ExtendedPrivKey::derive_priv, one unhardened child: the first half of the
\* HMAC must be a secret key (below the group order and not zero) and is added
\* to the parent private key.
ckd_priv(private_key, chain_code, child_number) ==
    LET output == hmac_output(chain_code, public_key_of(private_key),
                              index_of_bytes(ser32(child_number)))
    IN IF output[1] \in {NotReducedScalar, ZeroScalar} THEN panicked("InvalidSecretKey")
       ELSE <<<<"p">> \o Tail(output[1]), output[2]>>

RECURSIVE derive_priv(_, _, _)
derive_priv(private_key, chain_code, child_number_vec) ==
    IF child_number_vec = <<>> THEN <<private_key, chain_code>>
    ELSE LET child == ckd_priv(private_key, chain_code, child_number_vec[1])
         IN IF has_panicked(child) THEN child
            ELSE derive_priv(child[1], child[2], Tail(child_number_vec))

\* derive_child_private_key, for a chain code of 32 bytes.
derive_child_private_key(private_key, chain_code, derivation_path) ==
    derive_priv(private_key, chain_code,
                [i \in DOMAIN derivation_path |->
                    get_child_number(index_bytes(derivation_path[i]))])[1]

\* The callers that derive: master keys with and without a chain code, paths
\* of up to three segments, of four bytes or of one, some with a step whose HMAC
\* is zero or is not below the group order.
ChainedKey == [public_key |-> <<"K">>, chain_code |-> <<"c">>, derivation_path |-> <<>>]
DerivationMasterKeys == {MasterKey, ChainedKey}
DerivationChains ==
    {<<>>, <<"0001">>, <<"0001", "0002">>, <<"0001", "0002", "0001">>, <<"1">>,
     <<ZeroIndex, "0001">>, <<NotReducedIndex>>, <<"0001", NotReducedIndex>>}
DerivationAddresses ==
    {derive_ecdsa_public_key_and_address_from_extended_path(p, t, AgentNetwork, MasterKey)[2] :
        p \in {q \in DerivationChains : \A i \in DOMAIN q : q[i] # NotReducedIndex},
        t \in CallAddressTypes}
NextDerivation ==
    \/ \E key \in DerivationMasterKeys : Initialize(key)
    \/ \E p \in DerivationChains, t \in CallAddressTypes, d \in LifecycleMinConfirmations :
          AddAddress(p, t, d)
    \/ \E a \in DerivationAddresses : RemoveAddress(a)
SpecDerivation == InitLast /\ [][NextDerivation]_vars

\* The paths of up to n segments over a set of indexes.
PathsUpTo(indexes, n) == UNION {[1..k -> indexes] : k \in 0..n}
CompositionIndexes == {"1", "0001", NotReducedIndex, ZeroIndex}
CompositionKeys == {<<"K">>, <<>>}
CompositionChainCodes == {<<>>, <<"c">>}
MaxCompositionLength == 2

\* The derivation over p and then over q from what the derivation over p gave.
derived_in_two(public_key, chain_code, p, q) ==
    LET first == extended_bip32_derivation(public_key, chain_code, p)
    IN IF has_panicked(first) THEN first
       ELSE extended_bip32_derivation(first[1], first[2], q)

\* C23: for all paths p and q, the derivation over p \o q gives the key and the
\* chain code that the derivation over p followed by the derivation over q from
\* the intermediate key and chain code gives (and panics when one of the two
\* does); it is the loop of ckdpub over the segments, from the given chain code
\* or from the all-zero one when none is given; over the empty path it returns
\* the input key; and the key the registry holds for a path that is not empty
\* is the one derived over any two parts of the path.
C23_DerivationComposes ==
    /\ \A public_key \in CompositionKeys, chain_code \in CompositionChainCodes,
          p \in PathsUpTo(CompositionIndexes, MaxCompositionLength),
          q \in PathsUpTo(CompositionIndexes, MaxCompositionLength) :
          LET RECURSIVE loop(_, _)
              loop(derived, path) ==
                  IF path = <<>> \/ has_panicked(derived) THEN derived
                  ELSE loop(ckdpub(derived[1], derived[2], path[1]), Tail(path))
              whole == extended_bip32_derivation(public_key, chain_code, p \o q)
          IN /\ whole = derived_in_two(public_key, chain_code, p, q)
             /\ whole = loop(<<public_key, IF chain_code = <<>> THEN <<"0">> ELSE chain_code>>,
                             p \o q)
             /\ extended_bip32_derivation(public_key, chain_code, <<>>)[1] = public_key
    /\ \A a \in DOMAIN ecdsa_pub_key_addresses :
          LET key == ecdsa_pub_key_addresses[a]
              master == management_canister.ecdsa_public_key
          IN \A i \in 0..Len(key.derivation_path) :
                key.derivation_path # <<>> =>
                <<key.public_key, key.chain_code>> =
                    derived_in_two(master.public_key, master.chain_code,
                                   SubSeq(key.derivation_path, 1, i),
                                   SubSeq(key.derivation_path, i + 1, Len(key.derivation_path)))
C23_Witness ==
    \E a \in DOMAIN ecdsa_pub_key_addresses :
        /\ Len(ecdsa_pub_key_addresses[a].derivation_path) = 3
        /\ management_canister.ecdsa_public_key = ChainedKey
        /\ ecdsa_pub_key_addresses[a].public_key =
               <<"P", "(", "K", ",", "c", ")", "0001", "0002", "0001">>
        /\ ecdsa_pub_key_addresses[a].chain_code =
               <<"R", "(", "K", ",", "c", ")", "0001", "0002", "0001">>

\* The chain code a derivation runs from: the all-zero one when none is given.
effective_chain_code(chain_code) == IF chain_code = <<>> THEN <<"0">> ELSE chain_code
four_byte_segments(path) == \A i \in DOMAIN path : Len(index_bytes(path[i])) = 4
AgreementIndexes == {"0001", "0002", "1", ZeroIndex, NotReducedIndex}
AgreementChainCodes == {<<"0">>, <<"c">>}
child_public_key(chain_code, path) ==
    derive_ecdsa_public_key_and_address_from_extended_path(
        path, "P2pkh", "Bitcoin",
        [public_key |-> public_key_of(MasterPrivateKey), chain_code |-> chain_code,
         derivation_path |-> <<>>])[1].public_key

\* C24, as claimed: for every chain code and every path, the child public key
\* of the public derivation is the public key of the child private key of the
\* private derivation, for the paths the callers derive over and for the keys
\* the registry holds.
C24_PublicAgreesWithPrivate ==
    /\ \A chain_code \in AgreementChainCodes,
          path \in PathsUpTo(AgreementIndexes, MaxCompositionLength) :
          child_public_key(chain_code, path) =
              public_key_of(derive_child_private_key(MasterPrivateKey, chain_code, path))
    /\ \A a \in DOMAIN ecdsa_pub_key_addresses :
          LET key == ecdsa_pub_key_addresses[a]
              master == management_canister.ecdsa_public_key
          IN key.public_key =
                 public_key_of(derive_child_private_key(
                     MasterPrivateKey, effective_chain_code(master.chain_code),
                     key.derivation_path))

\* C24, amended: the two agree over the paths whose segments are of exactly four
\* bytes, whenever the private derivation returns a key; a segment of fewer
\* bytes is fed as it is to the HMAC of the public derivation and padded to a
\* child number for the private one.
C24_PublicAgreesWithPrivateOnChildNumbers ==
    /\ \A chain_code \in AgreementChainCodes,
          path \in PathsUpTo(AgreementIndexes, MaxCompositionLength) :
          LET private_key == derive_child_private_key(MasterPrivateKey, chain_code, path)
          IN (four_byte_segments(path) /\ private_key # panicked("InvalidSecretKey")[1])
                => child_public_key(chain_code, path) = public_key_of(private_key)
    /\ \A a \in DOMAIN ecdsa_pub_key_addresses :
          LET key == ecdsa_pub_key_addresses[a]
              master == management_canister.ecdsa_public_key
              private_key == derive_child_private_key(
                                 MasterPrivateKey, effective_chain_code(master.chain_code),
                                 key.derivation_path)
          IN (four_byte_segments(key.derivation_path)
                  /\ private_key # panicked("InvalidSecretKey")[1])
                => key.public_key = public_key_of(private_key)
C24_Witness ==
    \E a \in DOMAIN ecdsa_pub_key_addresses :
        LET key == ecdsa_pub_key_addresses[a]
        IN /\ key.derivation_path = <<"0001", "0002", "0001">>
           /\ derive_child_private_key(MasterPrivateKey, <<"c">>, key.derivation_path)
                  = <<"p", "(", "K", ",", "c", ")", "0001", "0002", "0001">>
           /\ key.public_key = <<"P", "(", "K", ",", "c", ")", "0001", "0002", "0001">>
           /\ management_canister.ecdsa_public_key = ChainedKey

\* The first half of the HMAC of a step is no scalar of the curve in the sense
\* of the claim: not below the group order, or zero.
StepChainCodes == {<<"0">>, <<"c">>, ckdpub(<<"K">>, <<"c">>, "0001")[2]}
StepKeys == {<<"K">>, ckdpub(<<"K">>, <<"c">>, "0001")[1], <<>>}
scalar_of_step(chain_code, public_key, index) == hmac_output(chain_code, public_key, index)[1]

\* C25, as claimed: a step of the derivation returns no child key when the
\* first half of its HMAC is not below the group order or is zero, and when the
\* parent key is no point; the registry holds no key derived through such a step.
C25_InvalidScalarFails ==
    /\ \A public_key \in StepKeys, chain_code \in StepChainCodes, index \in IndexNames :
          (scalar_of_step(chain_code, public_key, index) \in {NotReducedScalar, ZeroScalar}
              \/ ~secp256k1_decode_point(public_key))
          => has_panicked(ckdpub(public_key, chain_code, index))
    /\ \A a \in DOMAIN ecdsa_pub_key_addresses :
          \A i \in DOMAIN ecdsa_pub_key_addresses[a].derivation_path :
              ecdsa_pub_key_addresses[a].derivation_path[i] \notin {NotReducedIndex, ZeroIndex}

\* C25, amended: a step panics exactly when the first half of its HMAC is not
\* below the group order ("Invalid scalar") or, that being a scalar, the parent
\* key is no point ("Invalid public key"); a first half of zero is a scalar, and
\* the step then returns the parent key as the child key with the new chain
\* code.  The registry holds no key derived through a step that is not reduced,
\* an add_address that panics returns no address, and a key derived through a
\* zero step is the key of its parent.
C25_NotReducedScalarFails ==
    /\ \A public_key \in StepKeys, chain_code \in StepChainCodes, index \in IndexNames :
          LET scalar == scalar_of_step(chain_code, public_key, index)
              child == ckdpub(public_key, chain_code, index)
          IN /\ has_panicked(child)
                    <=> (scalar = NotReducedScalar \/ ~secp256k1_decode_point(public_key))
             /\ scalar = NotReducedScalar => child = panicked("Invalid scalar")
             /\ (scalar # NotReducedScalar /\ ~secp256k1_decode_point(public_key))
                    => child = panicked("Invalid public key")
             /\ (scalar = ZeroScalar /\ secp256k1_decode_point(public_key))
                    => child = <<public_key, hmac_output(chain_code, public_key, index)[2]>>
    /\ \A a \in DOMAIN ecdsa_pub_key_addresses :
          LET key == ecdsa_pub_key_addresses[a]
          IN /\ \A i \in DOMAIN key.derivation_path : key.derivation_path[i] # NotReducedIndex
             /\ (key.derivation_path # <<>> /\ key.derivation_path[1] = ZeroIndex)
                    => key.public_key =
                           extended_bip32_derivation(
                               management_canister.ecdsa_public_key.public_key,
                               hmac_output(effective_chain_code(
                                               management_canister.ecdsa_public_key.chain_code),
                                           management_canister.ecdsa_public_key.public_key,
                                           ZeroIndex)[2],
                               Tail(key.derivation_path))[1]
    /\ (last.op = "add_address" /\ last.result = Err("panic"))
          => last.address = NoAddress
C25_Witness ==
    /\ last.op = "add_address"
    /\ last.result = Err("panic")
    /\ \E a \in DOMAIN ecdsa_pub_key_addresses :
          /\ ecdsa_pub_key_addresses[a].derivation_path = <<ZeroIndex, "0001">>
          /\ ecdsa_pub_key_addresses[a].public_key =
                 <<"P", "(", "K", ",", "R", "(", "K", ",", "0", ")", "Z", ")", "0001">>

(***************************************************************************)
(* agent.rs, address_management.rs: a master key that carries a            *)
(* derivation path of its own                                              *)
(***************************************************************************)
\* initialize takes any EcdsaPubKey; the callers here give it a key without a
\* path or a key with a path of one segment, and add addresses over paths of up
\* to and over the limit.
PrefixedKey == [public_key |-> <<"K">>, chain_code |-> <<"c">>, derivation_path |-> <<"0001">>]
PrefixedMasterKeys == {MasterKey, PrefixedKey}
NextPrefixed ==
    \/ \E key \in PrefixedMasterKeys : Initialize(key)
    \/ \E p \in RegistryPaths, t \in CallAddressTypes, d \in CallMinConfirmations :
          AddAddress(p, t, d)
    \/ \E a \in RegistryAddresses : RemoveAddress(a)
SpecPrefixed == InitLast /\ [][NextPrefixed]_vars

\* C26: every extended public key of the registry has a derivation path of at
\* most 255 segments, also when the master key given to initialize carries a
\* path that is prefixed to the requested one.
C26_StoredPathsBounded ==
    \A a \in DOMAIN ecdsa_pub_key_addresses :
        Len(ecdsa_pub_key_addresses[a].derivation_path) <= MaxDerivationPathLength

(***************************************************************************)
(* utxo_management.rs: get_utxos, from one await to the next, against an   *)
(* oracle that may reject any of the calls                                 *)
(***************************************************************************)
\* A page of the oracle carries the token of the next page, or none; the
\* filter of a request is a confirmation depth or the token of a page.  The
\* oracle has at most MaxPages pages for a fetch.
MaxPages == 3
PageUtxos == {<<>>, <<UtxoA>>}
PagedTipHeight == u32(20)
PageTokens == {"t1", "t2"}
PageTipHeights == {PagedTipHeight, wrapping_add(PagedTipHeight, u32(1))}
NoNextPage == <<>>
MinConfirmationsFilter(min_conf) == <<"MinConfirmations", min_conf>>
PageFilter(next_page) == IF next_page = NoNextPage THEN <<>> ELSE <<"Page", next_page[1]>>
GetUtxosRequest(address, network, filter) ==
    [network |-> network, address |-> address, filter |-> filter]

\* call_with_payment(..., "bitcoin_get_utxos", ...).await: the request with the
\* current filter is sent and get_utxos waits for the answer.  The requests
\* sent and the answers received are kept beside the locals of get_utxos.
call_with_payment(fetch) ==
    [fetch EXCEPT !.requests = Append(@, GetUtxosRequest(fetch.address, fetch.network,
                                                         fetch.filter)),
                  !.stage = "waiting"]

\* get_utxos up to its first await: the check of the depth, the locals, and
\* the first request.
get_utxos_begin(network, address, min_conf) ==
    IF min_conf > MIN_CONFIRMATIONS_UPPER_BOUND
    THEN [address |-> address, min_confirmations |-> min_conf,
          result |-> Err(<<"MinConfirmationsTooHigh">>), stage |-> "returned",
          replies |-> <<>>, requests |-> <<>>]
    ELSE call_with_payment(
             [network |-> network, address |-> address, min_confirmations |-> min_conf,
              utxos |-> <<>>, stage |-> "running", replies |-> <<>>,
              filter |-> MinConfirmationsFilter(min_conf), requests |-> <<>>])

\* What get_utxos returns.
returned(fetch, replies, result) ==
    [address |-> fetch.address, min_confirmations |-> fetch.min_confirmations,
     result |-> result, stage |-> "returned", replies |-> replies,
     requests |-> fetch.requests]

\* Faulty variant: the filter is not replaced by the token of the page received.
get_utxos_resume_keeping_filter(fetch, res) ==
    LET replies == Append(fetch.replies, res)
    IN IF ~res.ok
       THEN returned(fetch, replies,
                     Err(<<"ManagementCanisterReject", res.err[1], res.err[2]>>))
       ELSE IF res.val.next_page = NoNextPage
       THEN returned(fetch, replies,
                     Ok([utxos |-> fetch.utxos \o res.val.utxos,
                         tip_height |-> res.val.tip_height]))
       ELSE call_with_payment([fetch EXCEPT !.utxos = fetch.utxos \o res.val.utxos,
                                            !.replies = replies])

\* Faulty variant: a rejection ends the loop with the pages fetched so far.
get_utxos_resume_keeping_pages(fetch, res) ==
    LET replies == Append(fetch.replies, res)
    IN IF ~res.ok
       THEN returned(fetch, replies,
                     Ok([utxos |-> fetch.utxos, tip_height |-> PagedTipHeight]))
       ELSE IF res.val.next_page = NoNextPage
       THEN returned(fetch, replies,
                     Ok([utxos |-> fetch.utxos \o res.val.utxos,
                         tip_height |-> res.val.tip_height]))
       ELSE call_with_payment([fetch EXCEPT !.filter = PageFilter(res.val.next_page),
                                            !.utxos = fetch.utxos \o res.val.utxos,
                                            !.replies = replies])

\* get_utxos from the answer res to a request on, up to its next await or to
\* its return: a rejection returns the error made of its code and message, the
\* pages fetched being dropped; a last page returns the pages; any other page
\* is kept and the next request carries its token.
get_utxos_resume(fetch, res) ==
    LET replies == Append(fetch.replies, res)
    IN IF ~res.ok
       THEN returned(fetch, replies,
                     Err(<<"ManagementCanisterReject", res.err[1], res.err[2]>>))
       ELSE IF res.val.next_page = NoNextPage
       THEN returned(fetch, replies,
                     Ok([utxos |-> fetch.utxos \o res.val.utxos,
                         tip_height |-> res.val.tip_height]))
       ELSE call_with_payment([fetch EXCEPT !.filter = PageFilter(res.val.next_page),
                                            !.utxos = fetch.utxos \o res.val.utxos,
                                            !.replies = replies])

\* What the oracle may answer to the request awaited: a rejection, a last page,
\* or, while it has pages left, a page with the token of the next one.
OracleAnswers(fetch) ==
    {Err(rejection) : rejection \in Rejections}
        \cup {Ok([utxos |-> utxos, tip_height |-> tip_height, next_page |-> NoNextPage]) :
                 utxos \in PageUtxos, tip_height \in PageTipHeights}
        \cup IF Len(fetch.replies) < MaxPages - 1
             THEN {Ok([utxos |-> utxos, tip_height |-> tip_height, next_page |-> <<token>>]) :
                      utxos \in PageUtxos, tip_height \in PageTipHeights, token \in PageTokens}
             ELSE {}

\* get_utxos called by itself.
GetUtxosBegin(address, min_conf) ==
    /\ inflight = NoRequest
    /\ inflight' = get_utxos_begin(management_canister.network, address, min_conf)
    /\ UNCHANGED <<agent_vars, last, observer, peeked, reported, scenario, ever_spent, locally,
                   waiting>>

GetUtxosResume(res) ==
    /\ inflight.stage = "waiting"
    /\ inflight' = get_utxos_resume(inflight, res)
    /\ UNCHANGED <<agent_vars, last, observer, peeked, reported, scenario, ever_spent, locally,
                   waiting>>

\* The oracle answers the request awaited.
GetUtxosAnswered ==
    /\ inflight.stage = "waiting"
    /\ \E res \in OracleAnswers(inflight) : GetUtxosResume(res)

PagedMinConfirmations == {0, MIN_CONFIRMATIONS_UPPER_BOUND + 1}
NextFetch ==
    \/ \E a \in AllAddresses, d \in PagedMinConfirmations : GetUtxosBegin(a, d)
    \/ GetUtxosAnswered
\* Every call to the oracle is answered, by a reply or by a rejection.
SpecFetch == InitLast /\ [][NextFetch]_vars /\ WF_vars(GetUtxosAnswered)

RECURSIVE all_pages_utxos(_)
all_pages_utxos(replies) ==
    IF replies = <<>> THEN <<>>
    ELSE all_pages_utxos(SubSeq(replies, 1, Len(replies) - 1))
             \o replies[Len(replies)].val.utxos

\* The requests sent so far: one more than the answers received while an
\* answer is awaited, as many once get_utxos has returned; the first with the
\* depth, each later one with the token of the page before it.
requests_follow_pages(fetch) ==
    /\ Len(fetch.requests) = Len(fetch.replies) + (IF fetch.stage = "waiting" THEN 1 ELSE 0)
    /\ \A k \in DOMAIN fetch.requests :
          /\ fetch.requests[k].address = fetch.address
          /\ fetch.requests[k].filter[1] = IF k = 1 THEN "MinConfirmations" ELSE "Page"
          /\ fetch.requests[k].filter[2] = IF k = 1 THEN fetch.min_confirmations
                                           ELSE fetch.replies[k - 1].val.next_page[1]

\* C32: get_utxos with a depth over the bound fails with MinConfirmationsTooHigh
\* before any call to the oracle; otherwise the first request carries the
\* MinConfirmations filter and each later one the token of the previous page,
\* and, the oracle answering a page without next page after finitely many
\* pages, the loop ends, and when it returns a response, that response is the
\* concatenation in order of the UTXOs of all the pages with the tip height of
\* the last page.
C32_PagingTerminates ==
    /\ [](inflight.stage \in {"waiting", "returned"}
            => /\ inflight.min_confirmations > MIN_CONFIRMATIONS_UPPER_BOUND
                     => /\ inflight.stage = "returned"
                        /\ inflight.result = Err(<<"MinConfirmationsTooHigh">>)
                        /\ inflight.requests = <<>>
               /\ inflight.min_confirmations <= MIN_CONFIRMATIONS_UPPER_BOUND
                     => requests_follow_pages(inflight)
               /\ (inflight.stage = "returned" /\ inflight.result.ok)
                     => /\ inflight.replies[Len(inflight.replies)].val.next_page = NoNextPage
                        /\ inflight.result.val.utxos = all_pages_utxos(inflight.replies)
                        /\ inflight.result.val.tip_height =
                               inflight.replies[Len(inflight.replies)].val.tip_height)
    /\ (inflight.stage = "waiting") ~> (inflight.stage = "returned")
C32_Witness ==
    /\ inflight.stage = "returned"
    /\ inflight.result.ok
    /\ Len(inflight.replies) = MaxPages
    /\ Len(inflight.requests) = MaxPages
    /\ inflight.requests[MaxPages].filter = <<"Page", inflight.replies[MaxPages - 1].val.next_page[1]>>
    /\ inflight.result.val.utxos = <<UtxoA, UtxoA>>
    /\ inflight.replies[1].val.tip_height # inflight.result.val.tip_height

(***************************************************************************)
(* agent.rs: get_utxos_from_args over the pages, the agent taking other    *)
(* calls while an answer is awaited                                        *)
(***************************************************************************)
\* get_utxos_from_args up to the first await of get_utxos.  The caller keeps the
\* request; beside it are kept the locals of get_utxos and the agent as it is
\* when the call is made.
GetUtxosFromArgsBegin ==
    /\ inflight.stage = "args"
    /\ LET fetch == get_utxos_begin(inflight.args.network, inflight.args.address,
                                    inflight.args.min_confirmations)
       IN IF fetch.stage = "returned"
          THEN /\ inflight' = [stage |-> "failed", args |-> inflight.args, fetch |-> fetch,
                               called_on |-> agent]
               /\ Returns(Call("get_utxos_from_args", inflight.args.address, fetch.result))
          ELSE /\ inflight' = [stage |-> "sent", args |-> inflight.args, fetch |-> fetch,
                               called_on |-> agent]
               /\ Returns(Call("bitcoin_get_utxos", inflight.args.address, Ok(Unit)))
    /\ UNCHANGED agent_vars

\* get_utxos_from_args from an answer on: get_utxos up to its next await, or
\* its return, the error propagated by ? or the response reconciled with the
\* state copied into the request.
GetUtxosFromArgsResume(res) ==
    /\ inflight.stage = "sent"
    /\ LET fetch == get_utxos_resume(inflight.fetch, res)
       IN IF fetch.stage = "waiting"
          THEN /\ inflight' = [inflight EXCEPT !.fetch = fetch]
               /\ Returns(Call("bitcoin_get_utxos", inflight.args.address, Ok(Unit)))
          ELSE IF ~fetch.result.ok
          THEN /\ inflight' = [inflight EXCEPT !.stage = "failed", !.fetch = fetch]
               /\ Returns(Call("get_utxos_from_args", inflight.args.address, fetch.result))
          ELSE /\ \E utxos_result \in get_utxos_from_args_common(inflight.args.address,
                                                                 fetch.result.val,
                                                                 inflight.args.utxos_state) :
                     inflight' =
                         [min_confirmations |-> inflight.args.utxos_state.min_confirmations,
                          spent_state |-> inflight.args.utxos_state.spent_state,
                          generated_state |-> inflight.args.utxos_state.generated_state,
                          result |-> utxos_result.val,
                          stage |-> "result",
                          raw |-> fetch.result.val.utxos,
                          args |-> inflight.args,
                          fetch |-> fetch,
                          called_on |-> inflight.called_on]
               /\ Returns(Call("get_utxos_from_args", inflight.args.address, Ok(Unit)))
    /\ UNCHANGED agent_vars

GetUtxosFromArgsAnswered ==
    /\ inflight.stage = "sent"
    /\ \E res \in OracleAnswers(inflight.fetch) : GetUtxosFromArgsResume(res)

\* The caller that got an error holds nothing more of the call.
DropError ==
    /\ inflight.stage = "failed"
    /\ inflight' = NoRequest
    /\ UNCHANGED <<agent_vars, last, observer, peeked, reported, scenario, ever_spent, locally,
                   waiting>>

NextPaged ==
    \/ Initialize(MasterKey)
    \/ \E p \in DerivationPaths, t \in CallAddressTypes, d \in LifecycleMinConfirmations :
          AddAddress(p, t, d)
    \/ \E a \in AllAddresses, d \in PagedMinConfirmations : GetUtxosArgs(a, d)
    \/ GetUtxosFromArgsBegin
    \/ GetUtxosFromArgsAnswered
    \/ DropError
    \/ ApplyUtxos
SpecPaged == InitLast /\ [][NextPaged]_vars

\* The steps of get_utxos_from_args: the requests it sends and its return.
FetchCalls == {"bitcoin_get_utxos", "get_utxos_from_args"}
\* An answer that is a rejection.
HasRejection(replies) == \E k \in DOMAIN replies : ~replies[k].ok

\* C27 as stated: when get_utxos_from_args returns an error, the agent is
\* exactly as it was when the call was made.
C27_AgentAsBeforeTheCall ==
    [][(inflight'.stage = "failed" /\ inflight.stage # "failed")
          => agent' = inflight'.called_on]_vars

\* C27: a get_utxos that fails returns the error alone: for a confirmation depth
\* over the bound, MinConfirmationsTooHigh without any call to the oracle; for a
\* rejection of the first or of a later page, the rejection code and message of
\* that call, after exactly one request per page and none after the rejection,
\* and no list of the pages fetched before (a fetch with a rejected call never
\* gives a result to apply); and no step of get_utxos_from_args, the one that
\* returns the error included, changes the registry or the UTXO layers of the
\* agent: they are as the call found them, or as the calls made on the agent
\* while an answer was awaited left them.
C27_FailedFetchChangesNothing ==
    /\ [](inflight.stage \in {"sent", "failed", "result"}
            => LET fetch == inflight.fetch
               IN /\ inflight.args.min_confirmations > MIN_CONFIRMATIONS_UPPER_BOUND
                        => /\ inflight.stage = "failed"
                           /\ fetch.result = Err(<<"MinConfirmationsTooHigh">>)
                           /\ fetch.requests = <<>>
                  /\ inflight.args.min_confirmations <= MIN_CONFIRMATIONS_UPPER_BOUND
                        => /\ requests_follow_pages(fetch)
                           /\ HasRejection(fetch.replies) <=> inflight.stage = "failed"
                           /\ \A k \in DOMAIN fetch.replies :
                                 ~fetch.replies[k].ok => k = Len(fetch.replies)
                           /\ inflight.stage = "failed"
                                 => fetch.result =
                                        Err(<<"ManagementCanisterReject">>
                                                \o fetch.replies[Len(fetch.replies)].err)
                  /\ inflight.stage = "failed"
                        => /\ last.op = "get_utxos_from_args" => last.result = fetch.result
                           /\ "result" \notin DOMAIN inflight)
    /\ [][last'.op \in FetchCalls => UNCHANGED agent_vars]_vars
C27_Witness ==
    /\ inflight.stage = "failed"
    /\ last.op = "get_utxos_from_args"
    /\ last.result = Err(<<"ManagementCanisterReject", "CanisterReject", "not enough cycles">>)
    /\ Len(inflight.fetch.replies) = MaxPages
    /\ inflight.fetch.replies[1].val.utxos = <<UtxoA>>
    /\ agent # inflight.called_on
    /\ \E a \in DOMAIN utxos_state_addresses : utxos_state_addresses[a].unseen_state # <<>>

(***************************************************************************)
(* agent.rs: the engine operations next to the transfers, seen through the *)
(* call made last                                                          *)
(***************************************************************************)
\* The callers that reconcile, peek, commit and hand back transfer results.  The
\* chain holds the output A of the main address; transfers spend A and
\* generate C.
FrameOutPoints == {"A"}
NextFrame ==
    \/ Initialize(MasterKey)
    \/ \E a \in AllAddresses : GetUtxosArgs(a, 0)
    \/ GetUtxosFromArgsCall
    \/ GetUtxosFromArgs(ChainOracle(FrameOutPoints, EngineHeights))
    \/ ApplyUtxos
    \/ \E a \in AllAddresses : PeekUtxosUpdate(a)
    \/ \E a \in AllAddresses : PeekBalanceUpdate(a)
    \/ \E a \in AllAddresses : UpdateState(a)
    \/ \E a \in AllAddresses : GetUtxosUpdate(a)
    \/ \E a \in AllAddresses : GetBalanceUpdate(a)
    \/ \E r \in MultiTransferResults({UtxoA}, {UtxoC}) : ApplyMultiTransferResult(r)
SpecFrame == InitLast /\ [][NextFrame]_vars

\* The callers that, beside these, add and remove addresses, initialize again
\* and rebuild the agent from its state; each of their transfers spends A of the
\* main address and generates D for the derived address, managed or not.
ListsTransfers ==
    {r \in MultiTransferResults({UtxoA}, {UtxoD}) :
        r.transaction_info.utxos_addresses # <<>> /\ r.generated_utxos_addresses # <<>>}
NextLists ==
    \/ Initialize(MasterKey)
    \/ \E p \in DerivationPaths, t \in CallAddressTypes : AddAddress(p, t, 0)
    \/ \E a \in AllAddresses : RemoveAddress(a)
    \/ Upgrade
    \/ \E a \in AllAddresses : GetUtxosArgs(a, 0)
    \/ GetUtxosFromArgsCall
    \/ GetUtxosFromArgs(ChainOracle(FrameOutPoints, EngineHeights))
    \/ ApplyUtxos
    \/ \E a \in AllAddresses : PeekUtxosUpdate(a)
    \/ \E a \in AllAddresses : PeekBalanceUpdate(a)
    \/ \E a \in AllAddresses : UpdateState(a)
    \/ \E a \in AllAddresses : GetUtxosUpdate(a)
    \/ \E a \in AllAddresses : GetBalanceUpdate(a)
    \/ \E r \in ListsTransfers : ApplyMultiTransferResult(r)
SpecLists == InitLast /\ [][NextLists]_vars

IsPrefixOf(s, t) == Len(s) <= Len(t) /\ SubSeq(t, 1, Len(s)) = s
EngineCalls ==
    {"peek_utxos_update", "peek_balance_update", "update_state", "get_utxos_update",
     "get_balance_update", "get_utxos_args", "apply_utxos"}
\* The spent and the generated list of an address in a map of UTXO states: both
\* empty for an address that has no state.
TransferLists(usa, a) ==
    IF a \in DOMAIN usa
    THEN [spent_state |-> usa[a].spent_state, generated_state |-> usa[a].generated_state]
    ELSE [spent_state |-> <<>>, generated_state |-> <<>>]

\* C28: a step of peek_utxos_update, update_state, get_utxos_update, of their
\* balance variants, of get_utxos_args or of apply_utxos leaves the spent and the
\* generated list of every address as they were; and every step that changes
\* the spent or the generated list of an address is a step of
\* apply_multi_transfer_result that keeps the former list as a prefix of the new
\* one.
C28_TransferListsAppendOnly ==
    [][\A a \in AllAddresses :
          LET before == TransferLists(utxos_state_addresses, a)
              after == TransferLists(utxos_state_addresses', a)
          IN /\ last'.op \in EngineCalls => after = before
             /\ after # before
                   => /\ last'.op = "apply_multi_transfer_result"
                      /\ IsPrefixOf(before.spent_state, after.spent_state)
                      /\ IsPrefixOf(before.generated_state, after.generated_state)
      ]_vars

\* BalanceUpdate::new
BalanceUpdate_new == [added_balance |-> 0, removed_balance |-> 0]

\* C29: get_balance_update returns the sum of the values of the UTXOs added and
\* the sum of the values of the UTXOs removed of the update that get_utxos_update
\* would return (for an untracked address, the same error), and leaves the agent
\* in the state get_utxos_update would leave; a second get_balance_update right
\* after it returns a balance update of zero and zero.
C29_BalanceUpdateSums ==
    /\ \A a \in AllAddresses :
          LET balance_update == get_balance_update(utxos_state_addresses, a)
              utxos_update == get_utxos_update(utxos_state_addresses, a)
          IN /\ balance_update.state = utxos_update.state
             /\ utxos_update.result.ok
                   => balance_update.result =
                          Ok([added_balance |->
                                  get_balance_from_utxos(
                                      vec_of(utxos_update.result.val.added_utxos)),
                              removed_balance |->
                                  get_balance_from_utxos(
                                      vec_of(utxos_update.result.val.removed_utxos))])
             /\ ~utxos_update.result.ok => balance_update.result = utxos_update.result
             /\ balance_update.result.ok
                   => get_balance_update(balance_update.state, a).result = Ok(BalanceUpdate_new)
    /\ (last.op = "get_balance_update" /\ last.result.ok)
          => /\ get_balance_update(utxos_state_addresses, last.address).result
                    = Ok(BalanceUpdate_new)
             /\ get_utxos_update(utxos_state_addresses, last.address).result
                    = Ok(UtxosUpdate_new)
C29_Witness ==
    /\ last.op = "get_balance_update"
    /\ last.result.ok
    /\ last.result.val.added_balance > 0
    /\ last.result.val.removed_balance > 0
    /\ last.result.val.added_balance # last.result.val.removed_balance

\* C30: a step of apply_utxos on a tracked address installs the UTXO list of the
\* result as the unseen layer of the result's address and changes nothing else
\* (the seen, spent and generated layers and the confirmation depth of that
\* address, the states of the other addresses, the registry and the rest of the
\* agent stay as they were), and it returns the UtxosUpdate that a
\* peek_utxos_update of that address returns right after it.
C30_ApplyUtxosInstallsUnseen ==
    [][(last'.op = "apply_utxos" /\ last'.result.ok)
          => LET address == inflight.result.address
             IN /\ last'.address = address
                /\ DOMAIN utxos_state_addresses' = DOMAIN utxos_state_addresses
                /\ utxos_state_addresses'[address].unseen_state = inflight.result.utxos
                /\ utxos_state_addresses'[address].seen_state
                       = utxos_state_addresses[address].seen_state
                /\ utxos_state_addresses'[address].spent_state
                       = utxos_state_addresses[address].spent_state
                /\ utxos_state_addresses'[address].generated_state
                       = utxos_state_addresses[address].generated_state
                /\ utxos_state_addresses'[address].min_confirmations
                       = utxos_state_addresses[address].min_confirmations
                /\ \A other \in DOMAIN utxos_state_addresses \ {address} :
                      utxos_state_addresses'[other] = utxos_state_addresses[other]
                /\ UNCHANGED <<management_canister, main_address_type,
                               ecdsa_pub_key_addresses, min_confirmations>>
                /\ last'.result = peek_utxos_update(utxos_state_addresses', address)
      ]_vars
C30_Witness ==
    /\ last.op = "apply_utxos"
    /\ last.result.ok
    /\ last.result.val.added_utxos # {}
    /\ last.result.val.removed_utxos # {}
    /\ utxos_state_addresses[last.address].spent_state # <<>>
    /\ utxos_state_addresses[last.address].seen_state
           # utxos_state_addresses[last.address].unseen_state

(***************************************************************************)
(* agent.rs: requests at a depth other than the one stored for the address *)
(***************************************************************************)
\* The callers that send a transfer paying C to the main address, not yet in a
\* block (its height is the one of the next block of the first mock), and ask
\* for the UTXOs of an address at the depths of MockDepths.
UnconfirmedUtxo == MkUtxo("C", wrapping_add(new_mock.tip_height, u32(1)))
DepthTransfers ==
    {[transaction_info |-> [utxos_addresses |-> <<>>],
      generated_utxos_addresses |->
          (get_address_using_primitives(MainAddress) :> <<UnconfirmedUtxo>>)]}
NextDepth ==
    \/ Initialize(MasterKey)
    \/ \E a \in AllAddresses, d \in MockDepths : GetUtxosArgs(a, d)
    \/ \E mock \in Mocks : GetUtxosFromArgsTest(mock)
    \/ ApplyUtxos
    \/ \E r \in DepthTransfers : ApplyMultiTransferResult(r)
SpecDepth == InitLast /\ [][NextDepth]_vars

\* C31: every UTXO of the result obtained for a request built with
\* get_utxos_args(address, d) has d confirmations at the tip height of the
\* result, whatever the depth stored for the address.
C31_ResultAccordingToDepth ==
    inflight.stage = "result"
        => \A i \in DOMAIN inflight.result.utxos :
              integer_le(integer_sum(inflight.result.utxos[i].height,
                                     u32(inflight.args.min_confirmations)),
                         integer_sum(inflight.result.tip_height, u32(1)))

(***************************************************************************)
(* agent.rs: apply_multi_transfer_result with inputs and outputs of        *)
(* several addresses                                                       *)
(***************************************************************************)
\* Maps from addresses to lists: for any set of addresses, one of the lists
\* of each.
TransferMaps(lists) ==
    {[k \in {get_address_using_primitives(a) : a \in S} |-> f[get_address(k)]] :
        S \in SUBSET AllAddresses,
        f \in {g \in [AllAddresses -> UNION {lists[a] : a \in AllAddresses}] :
                  \A a \in AllAddresses : g[a] \in lists[a]}}
\* Transfers spend A and B of the main address and D of the derived
\* one; they generate C for the main address and D for the derived one.
TransferInputs ==
    [a \in AllAddresses |-> IF a = MainAddress THEN {<<UtxoA, UtxoB>>} ELSE {<<UtxoD>>}]
TransferOutputs ==
    [a \in AllAddresses |-> IF a = MainAddress THEN {<<UtxoC>>} ELSE {<<UtxoD>>}]
TransferResults ==
    {[transaction_info |-> [utxos_addresses |-> spent],
      generated_utxos_addresses |-> generated] :
        spent \in TransferMaps(TransferInputs), generated \in TransferMaps(TransferOutputs)}

NextTransfer ==
    \/ Initialize(MasterKey)
    \/ GetUtxosArgs(MainAddress, 0)
    \/ GetUtxosFromArgsCall
    \/ GetUtxosFromArgs(ChainOracle(FrameOutPoints, EngineHeights))
    \/ ApplyUtxos
    \/ \E r \in TransferResults : ApplyMultiTransferResult(r)
\* The agent asks for one confirmation, so that the depth 0 of a recipient's new
\* UtxosState is not the agent's.
InitTransfer == InitLast /\ min_confirmations = 1
SpecTransfer == InitTransfer /\ [][NextTransfer]_vars

\* The list a transfer map holds for an address, if any.
listed_for(utxos_addresses, address) ==
    IF get_address_using_primitives(address) \in DOMAIN utxos_addresses
    THEN utxos_addresses[get_address_using_primitives(address)]
    ELSE <<>>
inputs_tracked(usa, r) ==
    \A key \in DOMAIN r.transaction_info.utxos_addresses : get_address(key) \in DOMAIN usa

\* C33: for a transfer result whose input addresses are tracked,
\* apply_multi_transfer_result does not fail; it appends the outpoint of every
\* input UTXO to the spent list of its address and every generated UTXO to the
\* generated list of its address, a recipient without UtxosState getting one
\* with min_confirmations 0 and empty layers; it changes no seen or unseen
\* layer and no confirmation depth, and nothing else of the agent.
C33_TransferResultCached ==
    /\ [](\A r \in TransferResults :
            inputs_tracked(utxos_state_addresses, r)
                => LET applied == apply_multi_transfer_result(utxos_state_addresses, r)
                       recipients == {a \in AllAddresses :
                           get_address_using_primitives(a)
                               \in DOMAIN r.generated_utxos_addresses}
                   IN /\ applied.result = Ok(Unit)
                      /\ DOMAIN applied.state = DOMAIN utxos_state_addresses \cup recipients
                      /\ \A a \in DOMAIN applied.state :
                            LET inputs == listed_for(r.transaction_info.utxos_addresses, a)
                                outputs == listed_for(r.generated_utxos_addresses, a)
                                tracked == a \in DOMAIN utxos_state_addresses
                                after == applied.state[a]
                            IN /\ after.spent_state =
                                     (IF tracked THEN utxos_state_addresses[a].spent_state
                                      ELSE <<>>)
                                         \o [i \in DOMAIN inputs |-> inputs[i].outpoint]
                               /\ after.generated_state =
                                     (IF tracked THEN utxos_state_addresses[a].generated_state
                                      ELSE <<>>) \o outputs
                               /\ after.seen_state =
                                     IF tracked THEN utxos_state_addresses[a].seen_state
                                     ELSE <<>>
                               /\ after.unseen_state =
                                     IF tracked THEN utxos_state_addresses[a].unseen_state
                                     ELSE <<>>
                               /\ after.min_confirmations =
                                     IF tracked THEN utxos_state_addresses[a].min_confirmations
                                     ELSE 0)
    /\ [][(last'.op = "apply_multi_transfer_result" /\ last'.result.ok)
             => /\ \E r \in TransferResults :
                      /\ inputs_tracked(utxos_state_addresses, r)
                      /\ utxos_state_addresses' =
                             apply_multi_transfer_result(utxos_state_addresses, r).state
                /\ UNCHANGED <<management_canister, main_address_type,
                               ecdsa_pub_key_addresses, min_confirmations, inflight>>
         ]_vars
C33_Witness ==
    /\ last.op = "apply_multi_transfer_result"
    /\ last.result.ok
    /\ MainAddress \in DOMAIN utxos_state_addresses
    /\ utxos_state_addresses[MainAddress].spent_state = <<"A", "B">>
    /\ utxos_state_addresses[MainAddress].unseen_state # <<>>
    /\ \E a \in DOMAIN utxos_state_addresses \ DOMAIN ecdsa_pub_key_addresses :
          /\ utxos_state_addresses[a].generated_state = <<UtxoD>>
          /\ utxos_state_addresses[a].min_confirmations = 0

(***************************************************************************)
(* agent.rs: new and add_address, the confirmation depths an agent holds   *)
(***************************************************************************)
\* Faulty variant: the depth is not checked.
BitcoinAgent_new_unchecked(canister, address_type, min_conf) ==
    Ok([management_canister |-> canister,
        min_confirmations |-> min_conf,
        ecdsa_pub_key_addresses |-> <<>>,
        utxos_state_addresses |-> <<>>,
        main_address_type |-> address_type])

\* BitcoinAgent::new
BitcoinAgent_new(canister, address_type, min_conf) ==
    IF min_conf > MIN_CONFIRMATIONS_UPPER_BOUND
    THEN Err("MinConfirmationsTooHigh")
    ELSE Ok([management_canister |-> canister,
             min_confirmations |-> min_conf,
             ecdsa_pub_key_addresses |-> <<>>,
             utxos_state_addresses |-> <<>>,
             main_address_type |-> address_type])

\* The callers that create an agent with any depth, manage addresses with any
\* depth, send transfers and upgrade.
BoundedPaths == DerivationPaths \cup {TooLongPath, <<NotReducedIndex>>}
InitBounded ==
    /\ \E t \in CallAddressTypes, d \in RegistryMinConfirmations :
          LET created == BitcoinAgent_new(
                             [network |-> AgentNetwork, ecdsa_public_key |-> EmptyKey], t, d)
          IN /\ created.ok
             /\ management_canister = created.val.management_canister
             /\ main_address_type = created.val.main_address_type
             /\ ecdsa_pub_key_addresses = created.val.ecdsa_pub_key_addresses
             /\ min_confirmations = created.val.min_confirmations
             /\ utxos_state_addresses = created.val.utxos_state_addresses
    /\ inflight = NoRequest
    /\ last = Call("new", NoAddress, Ok(Unit))
    /\ peeked = [a \in AllAddresses |-> NoPeek]
    /\ reported = [a \in AllAddresses |-> Following({})]
    /\ scenario = 0
    /\ ever_spent = [a \in AllAddresses |-> {}]
    /\ waiting = NoRequest
    /\ locally = FALSE
    /\ observer = "last"
NextBounded ==
    \/ Initialize(MasterKey)
    \/ \E p \in BoundedPaths, t \in CallAddressTypes, d \in RegistryMinConfirmations :
          AddAddress(p, t, d)
    \/ \E p \in BoundedPaths : AddAddressWithDefaults(p)
    \/ \E a \in AllAddresses : RemoveAddress(a)
    \/ \E r \in MultiTransferResults({UtxoA, UtxoD}, {UtxoD}) : ApplyMultiTransferResult(r)
    \/ GetState
    \/ Upgrade
SpecBounded == InitBounded /\ [][NextBounded]_vars

\* The depths of the agent, of every UtxosState, and of the agent that
\* from_state would rebuild from the state's snapshot are at most
\* MIN_CONFIRMATIONS_UPPER_BOUND.
DepthsBounded ==
    /\ min_confirmations <= MIN_CONFIRMATIONS_UPPER_BOUND
    /\ \A a \in DOMAIN utxos_state_addresses :
          utxos_state_addresses[a].min_confirmations <= MIN_CONFIRMATIONS_UPPER_BOUND
    /\ LET restored == from_state(get_state(agent))
       IN /\ restored.min_confirmations <= MIN_CONFIRMATIONS_UPPER_BOUND
          /\ \A a \in DOMAIN restored.utxos_state_addresses :
                restored.utxos_state_addresses[a].min_confirmations
                    <= MIN_CONFIRMATIONS_UPPER_BOUND

\* C34 as stated: in every reachable state the depths are bounded, so
\* add_address never reaches its panicking match arm and returns the address or
\* DerivationPathTooLong.
C34_AddAddressReturns ==
    /\ DepthsBounded
    /\ \A p \in BoundedPaths :
          LET added == add_address(agent, p)
          IN added.result.ok \/ added.result = Err("DerivationPathTooLong")
    /\ last.op = "add_address_with_defaults"
          => last.result.ok \/ last.result = Err("DerivationPathTooLong")

\* C34: in every reachable state, those of an agent rebuilt by from_state from
\* a get_state snapshot included, the depth of the agent and the depth of every
\* UtxosState are at most MIN_CONFIRMATIONS_UPPER_BOUND, also in the agent that
\* from_state would rebuild from the state's snapshot; so add_address never
\* reaches its panicking match arm: it returns the address or
\* DerivationPathTooLong, or it panics inside the key derivation, which it does
\* exactly when the path is not too long and the agent is not initialized or
\* the path derives no valid key.
C34_DepthsBounded ==
    /\ DepthsBounded
    /\ \A p \in BoundedPaths :
          LET added == add_address(agent, p)
              short == Len(p) <= MaxDerivationPathLength
              derives == Initialized /\ NotReducedIndex \notin Range(p)
          IN /\ added.result # Err(UnreachableArm)
             /\ ~short <=> added.result = Err("DerivationPathTooLong")
             /\ (short /\ derives) <=> added.result.ok
             /\ (short /\ ~derives) <=> added.result = Err("panic")
    /\ last.op = "add_address_with_defaults"
          => \/ last.result.ok
             \/ last.result \in {Err("DerivationPathTooLong"), Err("panic")}
C34_Witness ==
    /\ last.op = "add_address_with_defaults"
    /\ last.result.ok
    /\ min_confirmations = MIN_CONFIRMATIONS_UPPER_BOUND
    /\ utxos_state_addresses[last.address].min_confirmations = MIN_CONFIRMATIONS_UPPER_BOUND
    /\ \E a \in DOMAIN utxos_state_addresses : utxos_state_addresses[a].min_confirmations = 0

(***************************************************************************)
(* The registry next to the UTXO-state map                                 *)
(***************************************************************************)
\* C35: in every reachable state the addresses keyed in the registry
\* are the addresses keyed in the UTXO-state map, also after a transfer result
\* that generates outputs for an address that was never added.
C35_KeySetsEqual ==
    DOMAIN ecdsa_pub_key_addresses = DOMAIN utxos_state_addresses

(***************************************************************************)
(* agent.rs: a transfer between get_utxos_args and apply_utxos             *)
(***************************************************************************)
\* C36: for an address with min_confirmations 0, under every interleaving of
\* get_utxos_args, the answer of the oracle, apply_multi_transfer_result and
\* apply_utxos, the unseen list that apply_utxos has just installed holds no
\* outpoint of the spent list the address has at that moment.
C36_NoSpentInInstalledUnseen ==
    (/\ last.op = "apply_utxos"
     /\ last.result.ok
     /\ utxos_state_addresses[last.address].min_confirmations = 0)
        => OutPointsIn(utxos_state_addresses[last.address].unseen_state)
               \cap Range(utxos_state_addresses[last.address].spent_state) = {}

(***************************************************************************)
(* The spent list over the life of an agent                                *)
(***************************************************************************)
\* A reconcile of address at depth 0 has returned a list, the one apply_utxos
\* installs as unseen, that holds outpoint.
offers(address, outpoint) ==
    /\ inflight.stage = "result"
    /\ inflight.result.address = address
    /\ inflight.min_confirmations = 0
    /\ outpoint \in OutPointsIn(inflight.result.utxos)

\* The callers over the life of an address at depth 0: they initialize, add and
\* remove the address, reconcile and commit it, send transfers and rebuild the
\* agent from its state.
NextSpent ==
    \/ Initialize(MasterKey)
    \/ \E p \in DerivationPaths, t \in CallAddressTypes : AddAddress(p, t, 0)
    \/ \E a \in AllAddresses : RemoveAddress(a)
    \/ \E a \in AllAddresses : GetUtxosArgs(a, 0)
    \/ GetUtxosFromArgsCall
    \/ GetUtxosFromArgs(ChainOracle(LifecycleOutPoints, EngineHeights))
    \/ ApplyUtxos
    \/ \E r \in MultiTransferResults({UtxoA, UtxoD}, {UtxoD}) : ApplyMultiTransferResult(r)
    \/ Upgrade
SpecSpent == InitSpent /\ [][NextSpent]_vars

\* C37: once an outpoint is recorded in the spent list of an address, no
\* reconcile of that address begun later, at depth 0, yields an unseen list with
\* that outpoint, whatever the calls in between: remove and add of the address,
\* initialize again, get_state and from_state.
C37_SpentNeverOfferedAgain ==
    \A address \in AllAddresses, outpoint \in LifecycleOutPoints :
        offers(address, outpoint) => outpoint \notin ever_spent[address]

(***************************************************************************)
(* The calls on one address next to the other addresses                    *)
(***************************************************************************)
\* The callers that manage two addresses at depth 0, reconcile them, with up to
\* two requests outstanding at a time, and commit.  The chain holds the output A
\* of the main address and the output D of the derived one.
NextOthers ==
    \/ Initialize(MasterKey)
    \/ \E p \in DerivationPaths, t \in CallAddressTypes : AddAddress(p, t, 0)
    \/ \E a \in AllAddresses : RemoveAddress(a)
    \/ \E a \in AllAddresses : GetUtxosArgs(a, 0)
    \/ GetUtxosFromArgsCall
    \/ GetUtxosFromArgs(ChainOracle(LifecycleOutPoints, EngineHeights))
    \/ Switch
    \/ ApplyUtxos
    \/ \E a \in AllAddresses : UpdateState(a)
    \/ \E a \in AllAddresses : GetUtxosUpdate(a)
    \/ \E a \in AllAddresses : GetBalanceUpdate(a)
SpecOthers == InitLast /\ [][NextOthers]_vars

\* Every address but one has the entry it had in a map.
others_unchanged(before, after, address) ==
    /\ DOMAIN after \ {address} = DOMAIN before \ {address}
    /\ \A other \in DOMAIN before \ {address} : after[other] = before[other]

\* C38: a step of apply_utxos, update_state, get_utxos_update or
\* get_balance_update on an address leaves the UtxosState of every other address
\* and the whole registry as they were; a step that adds or removes an address
\* leaves the registry entry and the UtxosState of every other address as they
\* were.
C38_OtherAddressesUntouched ==
    [][/\ last'.op \in {"apply_utxos", "update_state", "get_utxos_update",
                        "get_balance_update"}
             => /\ ecdsa_pub_key_addresses' = ecdsa_pub_key_addresses
                /\ others_unchanged(utxos_state_addresses, utxos_state_addresses',
                                    last'.address)
       /\ last'.op \in {"add_address", "remove_address"}
             => /\ others_unchanged(ecdsa_pub_key_addresses, ecdsa_pub_key_addresses',
                                    last'.address)
                /\ others_unchanged(utxos_state_addresses, utxos_state_addresses',
                                    last'.address)
      ]_vars
C38_Witness ==
    /\ last.op = "update_state"
    /\ last.result.ok
    /\ utxos_state_addresses[last.address].seen_state # <<>>
    /\ \E other \in DOMAIN utxos_state_addresses \ {last.address} :
          /\ utxos_state_addresses[other].unseen_state # <<>>
          /\ utxos_state_addresses[other].seen_state = <<>>
          /\ waiting.stage = "sent"
          /\ waiting.args.address = other
          /\ inflight.stage = "result"
          /\ inflight.result.address = last.address

(***************************************************************************)
(* agent.rs: get_utxos_from_args_common run twice                          *)
(***************************************************************************)
\* C39: for a UtxosState with min_confirmations 0, two runs of
\* get_utxos_from_args_common on the same answer of the oracle and the same
\* UtxosState return the same sequence of UTXOs, in the same order.
C39_ReconcileDeterministic ==
    (inflight.stage = "args" /\ inflight.args.utxos_state.min_confirmations = 0)
        => \A response \in ChainOracle(FrameOutPoints, EngineHeights)[inflight.args.address] :
              \A first, second \in get_utxos_from_args_common(inflight.args.address, response,
                                                              inflight.args.utxos_state) :
                  first.val.utxos = second.val.utxos

(***************************************************************************)
(* utxo_management.rs: has_utxo_min_confirmations over all of u32          *)
(***************************************************************************)
\* The callers of has_utxo_min_confirmations: heights, tips and depths from
\* both ends of u32, from around the first tip of the mock and from both sides
\* of 2^16 and of 2^31.
Uints ==
    {u32(0), u32(1), u32(2), u32(MIN_CONFIRMATIONS_UPPER_BOUND),
     u32(MIN_CONFIRMATIONS_UPPER_BOUND + 1), u32(HalfModulus - 1), u32(HalfModulus),
     <<(HalfModulus \div 2) - 1, HalfModulus - 1>>, <<HalfModulus \div 2, 0>>,
     <<HalfModulus - 1, HalfModulus - 2>>, u32_MAX}
InitConfirmations ==
    /\ management_canister = [network |-> AgentNetwork, ecdsa_public_key |-> EmptyKey]
    /\ main_address_type \in CallAddressTypes
    /\ min_confirmations = 0
    /\ ecdsa_pub_key_addresses = <<>>
    /\ utxos_state_addresses = <<>>
    /\ \E height \in Uints, tip_height \in Uints, min_conf \in Uints :
          inflight = [min_confirmations |-> min_conf, utxo |-> MkUtxo("A", height),
                      tip_height |-> tip_height, stage |-> "inputs"]
    /\ last = Call("new", NoAddress, Ok(Unit))
    /\ peeked = [a \in AllAddresses |-> NoPeek]
    /\ reported = [a \in AllAddresses |-> Following({})]
    /\ scenario = 0
    /\ ever_spent = [a \in AllAddresses |-> {}]
    /\ waiting = NoRequest
    /\ locally = FALSE
    /\ observer = "none"
HasUtxoMinConfirmations ==
    /\ inflight.stage = "inputs"
    /\ \E outcome \in has_utxo_min_confirmations(inflight.utxo, inflight.tip_height,
                                                 inflight.min_confirmations) :
          inflight' = [min_confirmations |-> inflight.min_confirmations,
                       utxo |-> inflight.utxo,
                       tip_height |-> inflight.tip_height,
                       stage |-> "returned",
                       outcome |-> outcome]
    /\ UNCHANGED <<agent_vars, last, observer, peeked, reported, scenario, ever_spent, locally,
                   waiting>>
NextConfirmations == HasUtxoMinConfirmations
SpecConfirmations == InitConfirmations /\ [][NextConfirmations]_vars

\* C40: has_utxo_min_confirmations returns for every height h, tip t and depth
\* d of u32: it returns true exactly when h + d <= t + 1 over the integers, and
\* where d > t + 1, or t is the greatest u32, t + 1 - d is computed without
\* leaving u32 and no output is reported as confirmed that is not.
C40_ConfirmationPredicateTotal ==
    inflight.stage = "returned"
        => /\ inflight.outcome.ok
           /\ inflight.outcome.val
                  <=> integer_le(integer_sum(inflight.utxo.height, inflight.min_confirmations),
                                 integer_sum(inflight.tip_height, u32(1)))

====
